---- MODULE Spec2Model ----
(***************************************************************************)
(* Model of the ProxyRules generator core: node classification             *)
(* (Generator/core/node_parser.py), proxy-group composition                *)
(* (Generator/core/proxy_groups.py), the group lists of the renderers      *)
(* (Generator/generators) and rule URLs (Generator/core/rule_loader.py).   *)
(*                                                                         *)
(* Strings are sequences of characters.  An ASCII character is the         *)
(* one-character string itself ("H"); any other code point is written      *)
(* "U+XXXX" (U+6E2F is the character 'gang' of Hong Kong, and so on), so    *)
(* that substring search and concatenation are computed as Python does.    *)
(***************************************************************************)
EXTENDS Integers, Sequences, FiniteSets, TLC

VARIABLES
    pc,                 \* position of the run
    node_name,          \* argument of identify_country
    exclude_isp,        \* argument exclude_isp
    country,            \* value returned by identify_country
    node_names,         \* the node list handed to the aggregator / composer
    min_count,          \* argument min_count / min_country_nodes
    country_counts,     \* value returned by parse_nodes
    country_info_list,  \* value returned by get_country_info_list
    proxy_groups,       \* 'proxy-groups' of generate_all_groups
    proxies_ids,        \* which list object each group's 'proxies' is
    yaml_str,           \* the text returned by YamlHelper.to_yaml_string
    categories,         \* RuleLoader.categories ('Categories')
    tools_mapping,      \* RuleLoader.tools_mapping ('Categories_Tools_List')
    filetype_mapping,   \* RuleLoader.filetype_mapping ('Categories_Filetype_List')
    rule_config,        \* argument rule_config of generate_rule_url
    proxy_tool,         \* argument proxy_tool of generate_rule_url
    url,                \* value returned by generate_rule_url
    rules,              \* RuleLoader.rules ('rules' of RemoteRules.yaml)
    rule_providers,     \* 'rule-providers' of a generated config
    rule_lines          \* the rule lines of a generated config

\* The variables of a RuleLoader run.
rule_vars == << categories, tools_mapping, filetype_mapping, rule_config,
                proxy_tool, url, rules, rule_providers, rule_lines >>

vars == << pc, node_name, exclude_isp, country, node_names, min_count,
           country_counts, country_info_list, proxy_groups, proxies_ids, yaml_str,
           categories, tools_mapping, filetype_mapping, rule_config,
           proxy_tool, url, rules, rule_providers, rule_lines >>

\* No RuleLoader takes part in the run.
NoRuleLoader ==
    /\ categories = << >>
    /\ tools_mapping = << >>
    /\ filetype_mapping = << >>
    /\ rule_config = << >>
    /\ proxy_tool = << >>
    /\ url = << >>
    /\ rules = << >>
    /\ rule_providers = << >>
    /\ rule_lines = << >>

(***************************************************************************)
(* Bounds of the model.                                                    *)
(***************************************************************************)
MaxNameLen == 3
MaxNodes == 3
MaxMinCount == 3
MaxTemplateLen == 2
MaxRules == 3

(***************************************************************************)
(* Python values.                                                          *)
(***************************************************************************)
\* Python's None: a value that is no string (no character is "None").
None == << "None" >>

\* str.lower() on the ASCII letters, the case folding re.IGNORECASE applies.
ToLower ==
    ("A" :> "a") @@ ("B" :> "b") @@ ("C" :> "c") @@ ("D" :> "d") @@ ("E" :> "e") @@ ("F" :> "f") @@
    ("G" :> "g") @@ ("H" :> "h") @@ ("I" :> "i") @@ ("J" :> "j") @@ ("K" :> "k") @@ ("L" :> "l") @@
    ("M" :> "m") @@ ("N" :> "n") @@ ("O" :> "o") @@ ("P" :> "p") @@ ("Q" :> "q") @@ ("R" :> "r") @@
    ("S" :> "s") @@ ("T" :> "t") @@ ("U" :> "u") @@ ("V" :> "v") @@ ("W" :> "w") @@ ("X" :> "x") @@
    ("Y" :> "y") @@ ("Z" :> "z")

FoldChar(c) == IF c \in DOMAIN ToLower THEN ToLower[c] ELSE c

FoldCase(s) == [i \in 1..Len(s) |-> FoldChar(s[i])]

\* A pattern 'k1|k2|...' of literal alternatives, with or without the (?i) flag.
Alternation(ignorecase, alts) ==
    [negated |-> FALSE, ignorecase |-> ignorecase, alts |-> alts]

\* re.compile: with (?i) the alternatives are matched case-folded.
re_compile(pattern) ==
    [negated |-> pattern.negated,
     ignorecase |-> pattern.ignorecase,
     alts |-> IF pattern.ignorecase
              THEN [k \in 1..Len(pattern.alts) |-> FoldCase(pattern.alts[k])]
              ELSE pattern.alts]

\* s contains kw as a contiguous substring.
Contains(s, kw) ==
    \E i \in 1..(Len(s) - Len(kw) + 1) :
        \A j \in 1..Len(kw) : s[i + j - 1] = kw[j]

\* regex.search(s): for an alternation, some alternative occurs in s; for
\* the anchored negative lookahead '^(?!.*(...)).*$', none does.
re_search(regex, s) ==
    LET t == IF regex.ignorecase THEN FoldCase(s) ELSE s
        found == \E k \in 1..Len(regex.alts) : Contains(t, regex.alts[k])
    IN  IF regex.negated THEN ~found ELSE found

(***************************************************************************)
(* NodeParser: the static tables.                                          *)
(***************************************************************************)
\* COUNTRIES_META, in insertion order (a Python dict iterates in that order):
\* Hong Kong, Taiwan, United States, Japan, Singapore.
COUNTRIES_META == <<
    [name |-> <<"U+9999", "U+6E2F">>,
     pattern |-> Alternation(TRUE, <<
       <<"U+9999", "U+6E2F">>,
       <<"U+6E2F">>,
       <<"H", "K">>,
       <<"h", "k">>,
       <<"H", "o", "n", "g", " ", "K", "o", "n", "g">>,
       <<"H", "o", "n", "g", "K", "o", "n", "g">>,
       <<"h", "o", "n", "g", "k", "o", "n", "g">>,
       <<"U+1F1ED", "U+1F1F0">> >>),
     icon |-> "Hong_Kong.png"],
    [name |-> <<"U+53F0", "U+6E7E">>,
     pattern |-> Alternation(TRUE, <<
       <<"U+53F0">>,
       <<"U+65B0", "U+5317">>,
       <<"U+5F70", "U+5316">>,
       <<"T", "W">>,
       <<"T", "a", "i", "w", "a", "n">>,
       <<"U+1F1F9", "U+1F1FC">> >>),
     icon |-> "Taiwan.png"],
    [name |-> <<"U+7F8E", "U+56FD">>,
     pattern |-> Alternation(TRUE, <<
       <<"U+7F8E", "U+56FD">>,
       <<"U+7F8E">>,
       <<"U", "S">>,
       <<"U", "n", "i", "t", "e", "d", " ", "S", "t", "a", "t", "e", "s">>,
       <<"U+1F1FA", "U+1F1F8">> >>),
     icon |-> "United_States.png"],
    [name |-> <<"U+65E5", "U+672C">>,
     pattern |-> Alternation(TRUE, <<
       <<"U+65E5", "U+672C">>,
       <<"U+5DDD", "U+65E5">>,
       <<"U+4E1C", "U+4EAC">>,
       <<"U+5927", "U+962A">>,
       <<"U+6CC9", "U+65E5">>,
       <<"U+57FC", "U+7389">>,
       <<"U+6CAA", "U+65E5">>,
       <<"U+6DF1", "U+65E5">>,
       <<"J", "P">>,
       <<"J", "a", "p", "a", "n">>,
       <<"U+1F1EF", "U+1F1F5">> >>),
     icon |-> "Japan.png"],
    [name |-> <<"U+65B0", "U+52A0", "U+5761">>,
     pattern |-> Alternation(TRUE, <<
       <<"U+65B0", "U+52A0", "U+5761">>,
       <<"U+5761">>,
       <<"U+72EE", "U+57CE">>,
       <<"S", "G">>,
       <<"S", "i", "n", "g", "a", "p", "o", "r", "e">>,
       <<"U+1F1F8", "U+1F1EC">> >>),
     icon |-> "Singapore.png"] >>

\* ISP_EXCLUDE_PATTERN: home/business broadband, Starlink, landing nodes.
ISP_EXCLUDE_PATTERN == Alternation(TRUE, <<
       <<"U+5BB6", "U+5BBD">>,
       <<"U+5BB6", "U+5EAD">>,
       <<"U+5BB6", "U+5EAD", "U+5BBD", "U+5E26">>,
       <<"U+5546", "U+5BBD">>,
       <<"U+5546", "U+4E1A", "U+5BBD", "U+5E26">>,
       <<"U+661F", "U+94FE">>,
       <<"S", "t", "a", "r", "l", "i", "n", "k">>,
       <<"U+843D", "U+5730">> >>)

\* The sentinel 'other' (qi ta) returned for a name no region matches.
OTHER_COUNTRY == <<"U+5176", "U+4ED6">>

\* __init__: the compiled region patterns, in table order, and the ISP regex.
country_regexes ==
    [i \in 1..Len(COUNTRIES_META) |-> re_compile(COUNTRIES_META[i].pattern)]

isp_exclude_regex == re_compile(ISP_EXCLUDE_PATTERN)

(***************************************************************************)
(* NodeParser.identify_country                                             *)
(***************************************************************************)
\* The loop over country_regexes.items() from entry i on: first match wins.
RECURSIVE first_match(_, _)
first_match(name, i) ==
    IF i > Len(COUNTRIES_META) THEN OTHER_COUNTRY
    ELSE IF re_search(country_regexes[i], name) THEN COUNTRIES_META[i].name
    ELSE first_match(name, i + 1)

\* Variants of identify_country with a slip in them, used to show that the
\* properties below depend on the code: the last matching region wins; the
\* regions are tried before the ISP test; the final return is missing.
RECURSIVE last_match(_, _)
last_match(name, i) ==
    IF i < 1 THEN OTHER_COUNTRY
    ELSE IF re_search(country_regexes[i], name) THEN COUNTRIES_META[i].name
    ELSE last_match(name, i - 1)

identify_country_last_wins(name, excl) ==
    IF excl /\ re_search(isp_exclude_regex, name) THEN None
    ELSE last_match(name, Len(COUNTRIES_META))

identify_country_regions_first(name, excl) ==
    IF first_match(name, 1) # OTHER_COUNTRY THEN first_match(name, 1)
    ELSE IF excl /\ re_search(isp_exclude_regex, name) THEN None
    ELSE OTHER_COUNTRY

identify_country_no_default(name, excl) ==
    IF excl /\ re_search(isp_exclude_regex, name) THEN None
    ELSE IF first_match(name, 1) = OTHER_COUNTRY THEN None
    ELSE first_match(name, 1)

identify_country(name, excl) ==
    IF excl /\ re_search(isp_exclude_regex, name) THEN None
    ELSE first_match(name, 1)

(***************************************************************************)
(* NodeParser.parse_nodes                                                  *)
(***************************************************************************)
\* dict.get(k, default) on a dict modelled as a function on its keys.
dict_get(d, k, default) == IF k \in DOMAIN d THEN d[k] ELSE default

\* d[k] = v on a dict.
dict_set(d, k, v) == [x \in (DOMAIN d) \cup {k} |-> IF x = k THEN v ELSE d[x]]

\* The for loop of parse_nodes from entry i on, country_counts so far.
RECURSIVE parse_nodes_loop(_, _, _, _)
parse_nodes_loop(names, excl, i, counts) ==
    IF i > Len(names) THEN counts
    ELSE LET c == identify_country(names[i], excl)
         IN  IF c = None
             THEN parse_nodes_loop(names, excl, i + 1, counts)
             ELSE parse_nodes_loop(names, excl, i + 1,
                                   dict_set(counts, c, dict_get(counts, c, 0) + 1))

\* parse_nodes with a lost increment: a key's count is set to 1, not raised.
RECURSIVE parse_nodes_loop_lost_increment(_, _, _, _)
parse_nodes_loop_lost_increment(names, excl, i, counts) ==
    IF i > Len(names) THEN counts
    ELSE LET c == identify_country(names[i], excl)
         IN  IF c = None
             THEN parse_nodes_loop_lost_increment(names, excl, i + 1, counts)
             ELSE parse_nodes_loop_lost_increment(names, excl, i + 1,
                                                  dict_set(counts, c, 1))

parse_nodes_lost_increment(names, excl) ==
    parse_nodes_loop_lost_increment(names, excl, 1, << >>)

parse_nodes(names, excl) == parse_nodes_loop(names, excl, 1, << >>)

(***************************************************************************)
(* NodeParser.get_country_info_list                                        *)
(***************************************************************************)
CountryInfo(name, count, pattern, icon_url) ==
    [name |-> name, count |-> count, pattern |-> pattern, icon_url |-> icon_url]

\* pattern.replace('(?i)', ''): the alternatives, without the flag.
strip_flag(pattern) == pattern.alts

\* '|'.join of the stripped region patterns from entry i on.
RECURSIVE join_country_patterns(_)
join_country_patterns(i) ==
    IF i > Len(COUNTRIES_META) THEN << >>
    ELSE strip_flag(COUNTRIES_META[i].pattern) \o join_country_patterns(i + 1)

\* '^(?!.*(k1|k2|...)).*$': matches a name in which no alternative occurs.
\* The (?i) flag has been stripped, so the alternatives are case-sensitive.
NegativeLookahead(alts) == [negated |-> TRUE, ignorecase |-> FALSE, alts |-> alts]

_generate_other_pattern ==
    NegativeLookahead(strip_flag(ISP_EXCLUDE_PATTERN) \o join_country_patterns(1))

\* The loop over COUNTRIES_META.keys() from entry i on.
RECURSIVE country_info_loop(_, _, _)
country_info_loop(counts, m, i) ==
    IF i > Len(COUNTRIES_META) THEN << >>
    ELSE LET meta == COUNTRIES_META[i]
             count == dict_get(counts, meta.name, 0)
         IN  (IF count >= m
              THEN << CountryInfo(meta.name, count, meta.pattern, meta.icon) >>
              ELSE << >>)
             \o country_info_loop(counts, m, i + 1)

\* The 'other' entry, appended when its count is positive.
other_info(counts) ==
    LET other_count == dict_get(counts, OTHER_COUNTRY, 0)
    IN  IF other_count > 0
        THEN << CountryInfo(OTHER_COUNTRY, other_count, _generate_other_pattern,
                            "Global.png") >>
        ELSE << >>

\* get_country_info_list with 'count > min_count' for 'count >= min_count'.
get_country_info_list_strict(names, excl, m) ==
    LET counts == parse_nodes(names, excl)
    IN  country_info_loop(counts, m + 1, 1) \o other_info(counts)

\* get_country_info_list with the threshold applied to 'other' as well.
get_country_info_list_other_threshold(names, excl, m) ==
    LET counts == parse_nodes(names, excl)
    IN  country_info_loop(counts, m, 1)
        \o (IF dict_get(counts, OTHER_COUNTRY, 0) >= m THEN other_info(counts)
            ELSE << >>)

get_country_info_list(names, excl, m) ==
    LET counts == parse_nodes(names, excl)
    IN  country_info_loop(counts, m, 1) \o other_info(counts)

(***************************************************************************)
(* ProxyGroupsGenerator: the names the code writes as literals.            *)
(***************************************************************************)
\* 'xuan ze dai li', the primary selector group.
SELECT_PROXY == <<"U+9009", "U+62E9", "U+4EE3", "U+7406">>

\* 'shou dong xuan ze', the manual group.
MANUAL_SELECT == <<"U+624B", "U+52A8", "U+9009", "U+62E9">>

\* 'zhi jie lian jie', the direct group.
DIRECT_CONNECT == <<"U+76F4", "U+63A5", "U+8FDE", "U+63A5">>

\* 'jie dian', the suffix of a region group's name.
NODE_SUFFIX == <<"U+8282", "U+70B9">>

\* The built-in policies DIRECT, REJECT and REJECT-DROP.
DIRECT == <<"D", "I", "R", "E", "C", "T">>

REJECT == <<"R", "E", "J", "E", "C", "T">>

REJECT_DROP == <<"R", "E", "J", "E", "C", "T", "-", "D", "R", "O", "P">>

\* The literals 'tai wan jie dian', 'mei guo jie dian', 'ri ben jie dian'.
TW_NODES == <<"U+53F0", "U+6E7E", "U+8282", "U+70B9">>

US_NODES == <<"U+7F8E", "U+56FD", "U+8282", "U+70B9">>

JP_NODES == <<"U+65E5", "U+672C", "U+8282", "U+70B9">>

\* 'qi ta jie dian', the name of the 'other' group.
OTHER_NODES == <<"U+5176", "U+4ED6", "U+8282", "U+70B9">>

(***************************************************************************)
(* ProxyGroupsGenerator.generate_country_groups                            *)
(***************************************************************************)
\* The exclude pattern without its (?i) flag.
_generate_exclude_filter_pattern_case_sensitive ==
    Alternation(FALSE, join_country_patterns(1))

\* '|'.join of the stripped region patterns, under one (?i) flag.  Unlike
\* _generate_other_pattern it does not name the ISP alternatives.
_generate_exclude_filter_pattern == Alternation(TRUE, join_country_patterns(1))

other_country_group ==
    [name |-> OTHER_NODES,
     icon |-> "Global.png",
     include_all |-> TRUE,
     type |-> "select",
     exclude_filter |-> _generate_exclude_filter_pattern]

\* country_group with a filter that has lost its (?i) flag.
country_group_case_sensitive(country_info, group_type) ==
    [name |-> country_info.name \o NODE_SUFFIX,
     icon |-> country_info.icon_url,
     include_all |-> TRUE,
     filter |-> [country_info.pattern EXCEPT !.ignorecase = FALSE],
     type |-> group_type,
     url |-> "https://cp.cloudflare.com/generate_204",
     interval |-> 60,
     tolerance |-> 20,
     lazy |-> FALSE]

country_group(country_info, group_type) ==
    IF group_type = "url-test"
    THEN [name |-> country_info.name \o NODE_SUFFIX,
          icon |-> country_info.icon_url,
          include_all |-> TRUE,
          filter |-> country_info.pattern,
          type |-> group_type,
          url |-> "https://cp.cloudflare.com/generate_204",
          interval |-> 60,
          tolerance |-> 20,
          lazy |-> FALSE]
    ELSE [name |-> country_info.name \o NODE_SUFFIX,
          icon |-> country_info.icon_url,
          include_all |-> TRUE,
          filter |-> country_info.pattern,
          type |-> group_type]

\* generate_country_groups without the branch for the 'other' summary.
generate_country_groups_all_named(infos, group_type) ==
    [i \in 1..Len(infos) |-> country_group(infos[i], group_type)]

generate_country_groups(infos, group_type) ==
    [i \in 1..Len(infos) |->
        IF infos[i].name = OTHER_COUNTRY
        THEN other_country_group
        ELSE country_group(infos[i], group_type)]

(***************************************************************************)
(* ProxyGroupsGenerator.generate_base_groups                               *)
(***************************************************************************)
\* generate_base_groups ending the selector's list with the direct group
\* instead of the DIRECT sentinel.
generate_base_groups_direct_group(country_group_names) ==
    << [name |-> SELECT_PROXY,
        icon |-> "Proxy.png",
        type |-> "select",
        proxies |-> country_group_names \o << MANUAL_SELECT, DIRECT_CONNECT >>],
       [name |-> MANUAL_SELECT,
        icon |-> "Round_Robin_1.png",
        include_all |-> TRUE,
        type |-> "select"] >>

generate_base_groups(country_group_names) ==
    << [name |-> SELECT_PROXY,
        icon |-> "Proxy.png",
        type |-> "select",
        proxies |-> country_group_names \o << MANUAL_SELECT, DIRECT >>],
       [name |-> MANUAL_SELECT,
        icon |-> "Round_Robin_1.png",
        include_all |-> TRUE,
        type |-> "select"] >>

(***************************************************************************)
(* ProxyGroupsGenerator.generate_policy_groups                             *)
(***************************************************************************)
\* x in list
list_contains(list, x) == \E i \in 1..Len(list) : list[i] = x

\* default_proxies with the manual group ahead of the region groups.
default_proxies_manual_first(country_group_names) ==
    << SELECT_PROXY, MANUAL_SELECT >> \o country_group_names \o << DIRECT_CONNECT >>

default_proxies(country_group_names) ==
    << SELECT_PROXY >> \o country_group_names \o << MANUAL_SELECT, DIRECT_CONNECT >>

\* The group that defines the shared list (the YAML anchor a1).
anchor_group(name, icon, country_group_names) ==
    [name |-> name, icon |-> icon, type |-> "select",
     proxies |-> default_proxies(country_group_names),
     yaml_anchor |-> "a1"]

\* A group that uses the shared list (a YAML reference to a1).
reference_group(name, icon, country_group_names) ==
    [name |-> name, icon |-> icon, type |-> "select",
     proxies |-> default_proxies(country_group_names),
     yaml_reference |-> "a1"]

\* A group with a member list of its own.
plain_group(name, icon, proxies) ==
    [name |-> name, icon |-> icon, type |-> "select", proxies |-> proxies]

us_media_group(country_group_names) ==
    IF list_contains(country_group_names, US_NODES)
    THEN plain_group(<<"U", "S", " ", "M", "e", "d", "i", "a">>, "United_States.png",
                     << US_NODES, SELECT_PROXY, MANUAL_SELECT, DIRECT_CONNECT >>)
    ELSE reference_group(<<"U", "S", " ", "M", "e", "d", "i", "a">>, "United_States.png", country_group_names)

\* taiwan_media_group with the test of the US group copied over.
taiwan_media_group_by_us(country_group_names) ==
    IF list_contains(country_group_names, US_NODES)
    THEN plain_group(<<"T", "a", "i", "w", "a", "n", " ", "M", "e", "d", "i", "a">>, "Taiwan.png",
                     << TW_NODES, SELECT_PROXY, MANUAL_SELECT, DIRECT_CONNECT >>)
    ELSE reference_group(<<"T", "a", "i", "w", "a", "n", " ", "M", "e", "d", "i", "a">>, "Taiwan.png", country_group_names)

taiwan_media_group(country_group_names) ==
    IF list_contains(country_group_names, TW_NODES)
    THEN plain_group(<<"T", "a", "i", "w", "a", "n", " ", "M", "e", "d", "i", "a">>, "Taiwan.png",
                     << TW_NODES, SELECT_PROXY, MANUAL_SELECT, DIRECT_CONNECT >>)
    ELSE reference_group(<<"T", "a", "i", "w", "a", "n", " ", "M", "e", "d", "i", "a">>, "Taiwan.png", country_group_names)

japan_media_group(country_group_names) ==
    IF list_contains(country_group_names, JP_NODES)
    THEN plain_group(<<"J", "a", "p", "a", "n", " ", "M", "e", "d", "i", "a">>, "Japan.png",
                     << JP_NODES, SELECT_PROXY, MANUAL_SELECT, DIRECT_CONNECT >>)
    ELSE reference_group(<<"J", "a", "p", "a", "n", " ", "M", "e", "d", "i", "a">>, "Japan.png", country_group_names)

\* apple_group with the primary selector after the region groups.
apple_group_selector_last(country_group_names) ==
    plain_group(<<"A", "p", "p", "l", "e">>, "Apple.png",
                << DIRECT_CONNECT >> \o country_group_names
                    \o << SELECT_PROXY, MANUAL_SELECT >>)

apple_group(country_group_names) ==
    plain_group(<<"A", "p", "p", "l", "e">>, "Apple.png",
                << DIRECT_CONNECT, SELECT_PROXY >> \o country_group_names
                    \o << MANUAL_SELECT >>)

microsoft_group(country_group_names) ==
    plain_group(<<"M", "i", "c", "r", "o", "s", "o", "f", "t">>, "Microsoft.png",
                << DIRECT_CONNECT, SELECT_PROXY >> \o country_group_names
                    \o << MANUAL_SELECT >>)

global_group(country_group_names) ==
    [name |-> <<"G", "L", "O", "B", "A", "L">>, icon |-> "Global.png", include_all |-> TRUE,
     type |-> "select",
     proxies |-> default_proxies(country_group_names),
     yaml_reference |-> "a1"]

generate_policy_groups(country_group_names) == <<
    anchor_group(<<"A", "I">>, "AI.png", country_group_names),
    reference_group(<<"T", "e", "l", "e", "g", "r", "a", "m">>, "Telegram.png", country_group_names),
    reference_group(<<"Y", "o", "u", "T", "u", "b", "e">>, "YouTube.png", country_group_names),
    reference_group(<<"N", "e", "t", "f", "l", "i", "x">>, "Netflix.png", country_group_names),
    reference_group(<<"S", "p", "o", "t", "i", "f", "y">>, "Spotify.png", country_group_names),
    reference_group(<<"T", "i", "k", "T", "o", "k">>, "TikTok.png", country_group_names),
    reference_group(<<"S", "t", "e", "a", "m">>, "Steam.png", country_group_names),
    reference_group(<<"G", "a", "m", "e">>, "Game.png", country_group_names),
    reference_group(<<"E", "-", "H", "e", "n", "t", "a", "i">>, "Ehentai.png", country_group_names),
    reference_group(<<"P", "o", "r", "n", "S", "i", "t", "e">>, "Pornhub.png", country_group_names),
    us_media_group(country_group_names),
    taiwan_media_group(country_group_names),
    japan_media_group(country_group_names),
    reference_group(<<"G", "l", "o", "b", "a", "l", " ", "M", "e", "d", "i", "a">>, "DomesticMedia.png", country_group_names),
    apple_group(country_group_names),
    microsoft_group(country_group_names),
    reference_group(<<"G", "o", "o", "g", "l", "e">>, "Google_Search.png", country_group_names),
    plain_group(<<"G", "o", "o", "g", "l", "e", " ", "F", "C", "M">>, "Firebase.png",
                << <<"G", "o", "o", "g", "l", "e">>, DIRECT_CONNECT >>),
    plain_group(<<"S", "o", "g", "o", "u", " ", "P", "r", "i", "v", "a", "c", "y">>, "Sougou.png",
                << DIRECT_CONNECT, REJECT >>),
    plain_group(<<"A", "D", "B", "l", "o", "c", "k">>, "AdBlack.png",
                << REJECT_DROP, REJECT, DIRECT_CONNECT >>),
    plain_group(DIRECT_CONNECT, "Direct.png", << DIRECT, SELECT_PROXY >>),
    global_group(country_group_names) >>

(***************************************************************************)
(* ProxyGroupsGenerator.generate_all_groups                                *)
(***************************************************************************)
\* [f"{info.name}jie dian" for info in country_info_list]
country_group_names_of(infos) == [i \in 1..Len(infos) |-> infos[i].name \o NODE_SUFFIX]

(***************************************************************************)
(* The renderers' default region set, used when there is no node list      *)
(* (MihomoGenerator.generate_yaml_config and the Stash, Loon and Surge     *)
(* generators, which repeat the same statements).                          *)
(***************************************************************************)
\* ['Hong Kong', 'Taiwan', 'Singapore', 'Japan', 'United States'] (written
\* in Chinese in the code).
default_country_names == <<
    <<"U+9999", "U+6E2F">>,
    <<"U+53F0", "U+6E7E">>,
    <<"U+65B0", "U+52A0", "U+5761">>,
    <<"U+65E5", "U+672C">>,
    <<"U+7F8E", "U+56FD">> >>

\* [f"{name}jie dian" for name in default_country_names] + ['qi ta jie dian']
default_country_group_names ==
    [k \in 1..Len(default_country_names) |-> default_country_names[k] \o NODE_SUFFIX]
        \o << OTHER_NODES >>

\* The loop over default_country_names from entry k on: a zero-count
\* CountryInfo for each name that is a key of COUNTRIES_META.
RECURSIVE default_country_info_loop(_)
default_country_info_loop(k) ==
    IF k > Len(default_country_names) THEN << >>
    ELSE LET country_name == default_country_names[k]
             keys == {i \in 1..Len(COUNTRIES_META) : COUNTRIES_META[i].name = country_name}
         IN  (IF keys # {}
              THEN LET meta == COUNTRIES_META[CHOOSE i \in keys : TRUE]
                   IN  << CountryInfo(country_name, 0, meta.pattern, meta.icon) >>
              ELSE << >>)
             \o default_country_info_loop(k + 1)

default_country_info ==
    default_country_info_loop(1)
        \o << CountryInfo(OTHER_COUNTRY, 0, _generate_other_pattern, "Global.png") >>

\* base_groups + policy_groups + country_groups of the default set.
default_proxy_groups ==
    generate_base_groups(default_country_group_names)
        \o generate_policy_groups(default_country_group_names)
        \o generate_country_groups(default_country_info, "url-test")

\* generate_all_groups substituting the default set for an empty summary
\* list.
generate_all_groups_default_fallback(names, min_country_nodes) ==
    LET infos == get_country_info_list(names, TRUE, min_country_nodes)
        country_group_names == country_group_names_of(infos)
    IN  IF infos = << >>
        THEN [proxy_groups |-> default_proxy_groups,
              country_info |-> infos,
              country_group_names |-> country_group_names]
        ELSE [proxy_groups |-> generate_base_groups(country_group_names)
                               \o generate_policy_groups(country_group_names)
                               \o generate_country_groups(infos, "url-test"),
              country_info |-> infos,
              country_group_names |-> country_group_names]

\* generate_all_groups concatenating the region tier before the policy tier.
generate_all_groups_regions_first(names, min_country_nodes) ==
    LET infos == get_country_info_list(names, TRUE, min_country_nodes)
        country_group_names == country_group_names_of(infos)
    IN  [proxy_groups |-> generate_base_groups(country_group_names)
                          \o generate_country_groups(infos, "url-test")
                          \o generate_policy_groups(country_group_names),
         country_info |-> infos,
         country_group_names |-> country_group_names]

generate_all_groups(names, min_country_nodes) ==
    LET infos == get_country_info_list(names, TRUE, min_country_nodes)
        country_group_names == country_group_names_of(infos)
    IN  [proxy_groups |-> generate_base_groups(country_group_names)
                          \o generate_policy_groups(country_group_names)
                          \o generate_country_groups(infos, "url-test"),
         country_info |-> infos,
         country_group_names |-> country_group_names]

\* def generate_all_groups(self, node_names, min_country_nodes: int = 2)
DEFAULT_MIN_COUNTRY_NODES == 2

\* node_names = None, the default argument of the renderers: a value that is
\* no list of names.
NoNodeNames == << None >>

\* 'if node_names:' taken for a list that is not None as well as for a
\* non-empty one.
build_proxy_groups_none_only(names) ==
    IF names # NoNodeNames
    THEN generate_all_groups(names, DEFAULT_MIN_COUNTRY_NODES).proxy_groups
    ELSE default_proxy_groups

\* The group list every renderer builds: 'if node_names:' is false for None
\* and for the empty list.
build_proxy_groups(names) ==
    IF names # NoNodeNames /\ names # << >>
    THEN generate_all_groups(names, DEFAULT_MIN_COUNTRY_NODES).proxy_groups
    ELSE default_proxy_groups

\* A filter that drops the manual group instead of GLOBAL.
skip_manual_group(group) == group.name # MANUAL_SELECT

\* [group for group in proxy_groups if group.get('name') != 'GLOBAL'], and
\* the 'continue' of the Loon and Surge group sections.
skip_global_group(group) == group.name # <<"G", "L", "O", "B", "A", "L">>

without_global(groups) == SelectSeq(groups, skip_global_group)

\* s.startswith(prefix)
startswith(s, prefix) ==
    /\ Len(s) >= Len(prefix)
    /\ \A i \in 1..Len(prefix) : s[i] = prefix[i]

(***************************************************************************)
(* The list objects behind the member lists                                *)
(***************************************************************************)
\* The keys '_yaml_anchor' and '_yaml_reference' of a group.
MARKER_KEYS == {"yaml_anchor", "yaml_reference"}

\* generate_policy_groups gives the one list 'default_proxies' to every
\* group it marks as anchor or reference; every other member list is built
\* by a list expression of its own.  A group's entry is the position of the
\* first group that holds the same list object, 0 for a group without list.
proxies_identities(groups) ==
    LET shared == {i \in 1..Len(groups) : DOMAIN groups[i] \cap MARKER_KEYS # {}}
    IN  [i \in 1..Len(groups) |->
            IF "proxies" \notin DOMAIN groups[i] THEN 0
            ELSE IF i \in shared THEN CHOOSE k \in shared : \A l \in shared : k <= l
            ELSE i]

\* list.append(name) / list.pop() on the member list of group i, seen
\* through every group that holds the same list object.
list_append(groups, ids, i, name) ==
    [j \in 1..Len(groups) |->
        IF ids[j] # 0 /\ ids[j] = ids[i]
        THEN [groups[j] EXCEPT !.proxies = Append(groups[i].proxies, name)]
        ELSE groups[j]]

list_pop(groups, ids, i) ==
    [j \in 1..Len(groups) |->
        IF ids[j] # 0 /\ ids[j] = ids[i]
        THEN [groups[j] EXCEPT
                 !.proxies = SubSeq(groups[i].proxies, 1, Len(groups[i].proxies) - 1)]
        ELSE groups[j]]

(***************************************************************************)
(* YamlHelper.to_yaml_string (Generator/utils/yaml_helper.py)              *)
(***************************************************************************)
\* {k: v for k, v in group.items() if not k.startswith('_')}
clean_group(group) == [k \in DOMAIN group \ MARKER_KEYS |-> group[k]]

\* The first group marked as anchor, 0 when there is none.
anchor_position(groups) ==
    IF \E i \in 1..Len(groups) : "yaml_anchor" \in DOMAIN groups[i]
    THEN CHOOSE i \in 1..Len(groups) :
            /\ "yaml_anchor" \in DOMAIN groups[i]
            /\ \A j \in 1..(i - 1) : "yaml_anchor" \notin DOMAIN groups[j]
    ELSE 0

\* anchor_name, "" for None
anchor_name_of(groups) ==
    IF anchor_position(groups) = 0 THEN ""
    ELSE groups[anchor_position(groups)].yaml_anchor

\* The reference group: without markers, and with the string '*<anchor>'
\* under 'proxies' (field proxies_str: the key holds a str, not a list).
ref_group(group, anchor_name) ==
    [k \in (DOMAIN group \ (MARKER_KEYS \cup {"proxies"})) \cup {"proxies_str"} |->
        IF k = "proxies_str" THEN << "*", anchor_name >> ELSE group[k]]

\* data['proxy-groups'] after to_yaml_string: the two loops assign to
\* proxy_groups[i], the caller's list.
proxy_groups_after_dump(groups) ==
    LET a == anchor_position(groups)
        anchor_name == anchor_name_of(groups)
    IN  [i \in 1..Len(groups) |->
            IF i = a THEN clean_group(groups[i])
            ELSE IF /\ anchor_name # ""
                    /\ "yaml_reference" \in DOMAIN groups[i]
                    /\ groups[i].yaml_reference = anchor_name
            THEN ref_group(groups[i], anchor_name)
            ELSE groups[i]]

\* The group whose 'proxies:' line gets the anchor: the first line with
\* 'proxies:' from the first line with 'name: AI' on.
anchored_position(groups) ==
    LET has_list(i) == DOMAIN groups[i] \cap {"proxies", "proxies_str"} # {}
        from_ai(i) == \E k \in 1..i : startswith(groups[k].name, << "A", "I" >>)
        found == {i \in 1..Len(groups) : has_list(i) /\ from_ai(i)}
    IN  IF found = {} THEN 0 ELSE CHOOSE i \in found : \A j \in found : i <= j

\* The text of 'proxy-groups': for each group its name, the marker keys it
\* still has, and its 'proxies' entry: a block list (with '&a1' when
\* anchored), the alias '*a1', or the quoted string "'*a1'"; 'separated'
\* tells whether blank lines were put between the groups.
dump_proxy_groups(groups, anchor_name) ==
    [separated |-> anchor_name # "",
     groups |->
        [i \in 1..Len(groups) |->
            LET anchored == anchor_name # "" /\ i = anchored_position(groups)
            IN  [name |-> groups[i].name,
                 markers |-> DOMAIN groups[i] \cap MARKER_KEYS,
                 proxies |->
                    IF "proxies" \in DOMAIN groups[i]
                    THEN [kind |-> "list",
                          anchor |-> IF anchored THEN anchor_name ELSE "",
                          items |-> groups[i].proxies]
                    ELSE IF "proxies_str" \in DOMAIN groups[i]
                    THEN [kind |-> IF anchor_name # "" /\ ~anchored THEN "alias" ELSE "quoted",
                          anchor |-> IF anchored THEN anchor_name ELSE "",
                          items |-> << groups[i].proxies_str >>]
                    ELSE [kind |-> "absent", anchor |-> "", items |-> << >>]]]]

\* to_yaml_string(data): the text of the groups as the two loops left them.
to_yaml_string(groups) ==
    dump_proxy_groups(proxy_groups_after_dump(groups), anchor_name_of(groups))

(***************************************************************************)
(* RuleLoader (Generator/core/rule_loader.py): the URL of a rule.          *)
(*                                                                         *)
(* A URL, a template, a remote file and a tool alias are strings written   *)
(* as sequences of pieces: a placeholder is one piece, "." and "/" are     *)
(* pieces, and any other run of characters is one piece.  The empty string *)
(* is << >>.                                                               *)
(***************************************************************************)
PROXYTOOLS == "{proxytools}"
REMOTEFILE == "{remotefile}"
FILETYPE == "{filetype}"

\* The key 'fallback' of a mapping.
FALLBACK == << "fallback" >>

\* piece in s
str_contains(s, piece) == \E i \in 1..Len(s) : s[i] = piece

\* s.rsplit(sep, 1)[0], for s that contains sep: what precedes the last sep.
rsplit_head(s, sep) ==
    LET last == CHOOSE i \in 1..Len(s) :
                    /\ s[i] = sep
                    /\ \A j \in (i + 1)..Len(s) : s[j] # sep
    IN  SubSeq(s, 1, last - 1)

\* s.replace(old, new), old being a placeholder
RECURSIVE str_replace(_, _, _)
str_replace(s, old, new) ==
    IF s = << >> THEN << >>
    ELSE (IF Head(s) = old THEN new ELSE << Head(s) >>)
         \o str_replace(Tail(s), old, new)

\* get_tool_type_mapping that ignores the 'fallback' entry.
get_tool_type_mapping_no_fallback(category, tool) ==
    IF category \notin DOMAIN tools_mapping THEN tool
    ELSE dict_get(tools_mapping[category], tool, tool)

get_tool_type_mapping(category, tool) ==
    IF category \notin DOMAIN tools_mapping THEN tool
    ELSE LET mapping == tools_mapping[category]
         IN  IF tool \in DOMAIN mapping THEN mapping[tool]
             ELSE dict_get(mapping, FALLBACK, tool)

\* get_filetype_mapping with the defaults of get_tool_type_mapping.
get_filetype_mapping_as_tool_name(category, tool) ==
    IF category \notin DOMAIN filetype_mapping THEN tool
    ELSE LET mapping == filetype_mapping[category]
         IN  IF tool \in DOMAIN mapping THEN mapping[tool]
             ELSE dict_get(mapping, FALLBACK, tool)

get_filetype_mapping(category, tool) ==
    IF category \notin DOMAIN filetype_mapping THEN << >>
    ELSE LET mapping == filetype_mapping[category]
         IN  IF tool \in DOMAIN mapping THEN mapping[tool]
             ELSE dict_get(mapping, FALLBACK, << >>)

\* The remote file without a leading './'.
strip_dot_slash(remotefile) ==
    IF startswith(remotefile, << ".", "/" >>)
    THEN SubSeq(remotefile, 3, Len(remotefile))
    ELSE remotefile

\* The three replacements, in the code's order.
fill_template(url_template, mapped_tool, clean_remotefile, filetype) ==
    str_replace(str_replace(str_replace(url_template, PROXYTOOLS, mapped_tool),
                            REMOTEFILE, clean_remotefile),
                FILETYPE, filetype)

\* generate_rule_url from the template lookup on, for a category of the
\* table.
resolve_template(category, remotefile, tool) ==
    LET url_template == dict_get(categories[category], "url", << >>)
    IN  IF url_template = << >> THEN None
        ELSE LET mapped_tool == get_tool_type_mapping(category, tool)
                 stripped == strip_dot_slash(remotefile)
                 has_filetype == str_contains(url_template, FILETYPE)
                 clean_remotefile ==
                     IF has_filetype /\ str_contains(stripped, ".")
                     THEN rsplit_head(stripped, ".")
                     ELSE stripped
                 filetype ==
                     IF has_filetype
                     THEN get_filetype_mapping(category, tool)
                     ELSE << >>
             IN  fill_template(url_template, mapped_tool, clean_remotefile,
                               filetype)

\* generate_rule_url that takes the remote file for the URL when the
\* category is not in the table.
generate_rule_url_unknown_category(rule_name, config, tool) ==
    LET category == dict_get(config, "category", None)
        remotefile == dict_get(config, "remotefile", << >>)
    IN  IF category = None \/ category = << >> THEN None
        ELSE IF category \notin DOMAIN categories THEN strip_dot_slash(remotefile)
        ELSE resolve_template(category, remotefile, tool)

generate_rule_url(rule_name, config, tool) ==
    LET category == dict_get(config, "category", None)
        remotefile == dict_get(config, "remotefile", << >>)
    IN  IF category = None \/ category = << >> \/ category \notin DOMAIN categories
        THEN None
        ELSE resolve_template(category, remotefile, tool)

(***************************************************************************)
(* RuleLoader and BaseLoader: the rule catalogs.                           *)
(*                                                                         *)
(* A rule key and a rule-provider key are TLA+ strings; the strings of a   *)
(* rule entry (name, behavior) are sequences of pieces like a URL; a       *)
(* policy name is a sequence of characters like a group name.  A rule line *)
(* is the record of the values its f-string joins.                         *)
(***************************************************************************)
MIHOMO == << "Mihomo" >>
LOON == << "Loon" >>
SURGE == << "Surge" >>

\* The keys of a rule entry that hold strings; every other key of an entry
\* of 'rules' holds a dict (isinstance(value, dict)).
STRING_KEYS == {"name", "category", "remotefile", "behavior"}

\* _flatten_rules: an entry with 'name' and 'category' is a rule; any other
\* dict is searched for rules in turn.  No rule key occurs twice in the
\* catalogs of the model, so the order of flattened.update does not matter.
RECURSIVE _flatten_rules(_)
_flatten_rules(rules_dict) ==
    LET dicts == {k \in DOMAIN rules_dict : k \notin STRING_KEYS}
        direct == {k \in dicts : /\ "name" \in DOMAIN rules_dict[k]
                                 /\ "category" \in DOMAIN rules_dict[k]}
        nested == [k \in dicts \ direct |-> _flatten_rules(rules_dict[k])]
        found == direct \cup UNION {DOMAIN nested[k] : k \in DOMAIN nested}
    IN  [key \in found |->
            IF key \in direct THEN rules_dict[key]
            ELSE nested[CHOOSE k \in DOMAIN nested : key \in DOMAIN nested[k]][key]]

get_all_rules == _flatten_rules(rules)

\* s.endswith(suffix)
endswith(s, suffix) ==
    /\ Len(s) >= Len(suffix)
    /\ \A i \in 1..Len(suffix) : s[Len(s) - Len(suffix) + i] = suffix[i]

\* A truth test that takes every value for true.
is_falsy_never(x) == FALSE

\* 'not x' for a string or None
is_falsy(x) == x = None \/ x = << >>

\* format_type of a rule provider, from the URL's extension
format_type(rule_url) ==
    IF endswith(rule_url, << ".", "mrs" >>) THEN "mrs"
    ELSE IF endswith(rule_url, << ".", "yaml" >>) \/ endswith(rule_url, << ".", "yml" >>)
    THEN "yaml"
    ELSE "text"

path_ext(format) ==
    IF format = "yaml" THEN "yaml" ELSE IF format = "mrs" THEN "mrs" ELSE "list"

\* The loop of generate_mihomo_rule_providers over the flattened rules.
mihomo_rule_providers(all_rules) ==
    LET kept == {rule_key \in DOMAIN all_rules :
                    /\ ~is_falsy(generate_rule_url(rule_key, all_rules[rule_key], MIHOMO))
                    /\ ~is_falsy(dict_get(all_rules[rule_key], "name", None))}
    IN  [provider_key \in kept |->
            LET config == all_rules[provider_key]
                rule_url == generate_rule_url(provider_key, config, MIHOMO)
                format == format_type(rule_url)
            IN  [type |-> "http",
                 behavior |-> dict_get(config, "behavior", << "classical" >>),
                 format |-> format,
                 interval |-> 86400,
                 url |-> rule_url,
                 path |-> << ".", "/", "ruleset", "/" >> \o config.name
                          \o << ".", path_ext(format) >>]]

generate_mihomo_rule_providers == mihomo_rule_providers(get_all_rules)

\* get_rules: rule key -> (rule-provider key, policy group name)
rule_mapping ==
    ("AI" :> [rule_name |-> "AI", policy_name |-> <<"A", "I">>]) @@
    ("Telegram" :> [rule_name |-> "Telegram", policy_name |-> <<"T", "e", "l", "e", "g", "r", "a", "m">>]) @@
    ("YouTube" :> [rule_name |-> "YouTube", policy_name |-> <<"Y", "o", "u", "T", "u", "b", "e">>]) @@
    ("YouTubeMusic" :> [rule_name |-> "YouTubeMusic", policy_name |-> <<"Y", "o", "u", "T", "u", "b", "e">>]) @@
    ("Netflix" :> [rule_name |-> "Netflix", policy_name |-> <<"N", "e", "t", "f", "l", "i", "x">>]) @@
    ("TikTok" :> [rule_name |-> "TikTok", policy_name |-> <<"T", "i", "k", "T", "o", "k">>]) @@
    ("Spotify" :> [rule_name |-> "Spotify", policy_name |-> <<"S", "p", "o", "t", "i", "f", "y">>]) @@
    ("Steam" :> [rule_name |-> "Steam", policy_name |-> <<"S", "t", "e", "a", "m">>]) @@
    ("Game" :> [rule_name |-> "Game", policy_name |-> <<"G", "a", "m", "e">>]) @@
    ("E-Hentai" :> [rule_name |-> "E-Hentai", policy_name |-> <<"E", "-", "H", "e", "n", "t", "a", "i">>]) @@
    ("PornSite" :> [rule_name |-> "PornSite", policy_name |-> <<"P", "o", "r", "n", "S", "i", "t", "e">>]) @@
    ("Furrybar" :> [rule_name |-> "Furrybar", policy_name |-> <<"P", "o", "r", "n", "S", "i", "t", "e">>]) @@
    ("Stream_US" :> [rule_name |-> "Stream_US", policy_name |-> <<"U", "S", " ", "M", "e", "d", "i", "a">>]) @@
    ("Stream_TW" :> [rule_name |-> "Stream_TW", policy_name |-> <<"T", "a", "i", "w", "a", "n", " ", "M", "e", "d", "i", "a">>]) @@
    ("Stream_JP" :> [rule_name |-> "Stream_JP", policy_name |-> <<"J", "a", "p", "a", "n", " ", "M", "e", "d", "i", "a">>]) @@
    ("Stream_Global" :> [rule_name |-> "Stream_Global", policy_name |-> <<"G", "l", "o", "b", "a", "l", " ", "M", "e", "d", "i", "a">>]) @@
    ("Apple" :> [rule_name |-> "Apple", policy_name |-> <<"A", "p", "p", "l", "e">>]) @@
    ("Microsoft" :> [rule_name |-> "Microsoft", policy_name |-> <<"M", "i", "c", "r", "o", "s", "o", "f", "t">>]) @@
    ("Google" :> [rule_name |-> "Google", policy_name |-> <<"G", "o", "o", "g", "l", "e">>]) @@
    ("GoogleFCM" :> [rule_name |-> "GoogleFCM", policy_name |-> <<"G", "o", "o", "g", "l", "e", " ", "F", "C", "M">>]) @@
    ("SogouPrivacy" :> [rule_name |-> "SogouPrivacy", policy_name |-> <<"S", "o", "g", "o", "u", " ", "P", "r", "i", "v", "a", "c", "y">>]) @@
    ("ADBlock" :> [rule_name |-> "ADBlock", policy_name |-> <<"A", "D", "B", "l", "o", "c", "k">>]) @@
    ("LocalNetwork_Non-IP" :> [rule_name |-> "LocalNetwork_Non-IP", policy_name |-> <<"U+76F4", "U+63A5", "U+8FDE", "U+63A5">>]) @@
    ("LocalNetwork_IP" :> [rule_name |-> "LocalNetwork_IP", policy_name |-> <<"U+76F4", "U+63A5", "U+8FDE", "U+63A5">>])

\* get_rules: the order of the RULE-SET lines
rule_order == <<
    "AI", "Telegram", "YouTube", "YouTubeMusic",
    "Netflix", "TikTok", "Spotify", "Steam",
    "Game", "E-Hentai", "PornSite", "Furrybar",
    "Stream_US", "Stream_TW", "Stream_JP", "Stream_Global",
    "Apple", "Microsoft", "Google", "GoogleFCM",
    "SogouPrivacy", "ADBlock", "LocalNetwork_Non-IP", "LocalNetwork_IP" >>

\* generate_loon_remote_rules: rule key -> (policy group name, tag)
loon_rule_policy_mapping ==
    ("AI" :> [policy_name |-> <<"A", "I">>, tag_name |-> "AI"]) @@
    ("Telegram" :> [policy_name |-> <<"T", "e", "l", "e", "g", "r", "a", "m">>, tag_name |-> "Telegram"]) @@
    ("YouTube" :> [policy_name |-> <<"Y", "o", "u", "T", "u", "b", "e">>, tag_name |-> "YouTube"]) @@
    ("YouTubeMusic" :> [policy_name |-> <<"Y", "o", "u", "T", "u", "b", "e">>, tag_name |-> "YouTube Music"]) @@
    ("Netflix" :> [policy_name |-> <<"N", "e", "t", "f", "l", "i", "x">>, tag_name |-> "Netflix"]) @@
    ("TikTok" :> [policy_name |-> <<"T", "i", "k", "T", "o", "k">>, tag_name |-> "TikTok"]) @@
    ("Spotify" :> [policy_name |-> <<"S", "p", "o", "t", "i", "f", "y">>, tag_name |-> "Spotify"]) @@
    ("Steam" :> [policy_name |-> <<"S", "t", "e", "a", "m">>, tag_name |-> "Steam"]) @@
    ("Game" :> [policy_name |-> <<"G", "a", "m", "e">>, tag_name |-> "Game"]) @@
    ("E-Hentai" :> [policy_name |-> <<"E", "-", "H", "e", "n", "t", "a", "i">>, tag_name |-> "E-Hentai"]) @@
    ("PornSite" :> [policy_name |-> <<"P", "o", "r", "n", "S", "i", "t", "e">>, tag_name |-> "PornSite"]) @@
    ("Furrybar" :> [policy_name |-> <<"P", "o", "r", "n", "S", "i", "t", "e">>, tag_name |-> "Furrybar"]) @@
    ("Stream_US" :> [policy_name |-> <<"U", "S", " ", "M", "e", "d", "i", "a">>, tag_name |-> "US Media"]) @@
    ("Stream_TW" :> [policy_name |-> <<"T", "a", "i", "w", "a", "n", " ", "M", "e", "d", "i", "a">>, tag_name |-> "Taiwan Media"]) @@
    ("Stream_JP" :> [policy_name |-> <<"J", "a", "p", "a", "n", " ", "M", "e", "d", "i", "a">>, tag_name |-> "Japan Media"]) @@
    ("Stream_Global" :> [policy_name |-> <<"G", "l", "o", "b", "a", "l", " ", "M", "e", "d", "i", "a">>, tag_name |-> "Global Media"]) @@
    ("Apple" :> [policy_name |-> <<"A", "p", "p", "l", "e">>, tag_name |-> "Apple"]) @@
    ("Microsoft" :> [policy_name |-> <<"M", "i", "c", "r", "o", "s", "o", "f", "t">>, tag_name |-> "Microsoft"]) @@
    ("Google" :> [policy_name |-> <<"G", "o", "o", "g", "l", "e">>, tag_name |-> "Google"]) @@
    ("GoogleFCM" :> [policy_name |-> <<"G", "o", "o", "g", "l", "e", " ", "F", "C", "M">>, tag_name |-> "Google FCM"]) @@
    ("SogouPrivacy" :> [policy_name |-> <<"S", "o", "g", "o", "u", " ", "P", "r", "i", "v", "a", "c", "y">>, tag_name |-> "Sogou Privacy"]) @@
    ("ADBlock" :> [policy_name |-> <<"A", "D", "B", "l", "o", "c", "k">>, tag_name |-> "ADBlock"]) @@
    ("LocalNetwork_Non-IP" :> [policy_name |-> <<"U+76F4", "U+63A5", "U+8FDE", "U+63A5">>, tag_name |-> "LocalNetwork Non-IP"]) @@
    ("LocalNetwork_IP" :> [policy_name |-> <<"U+76F4", "U+63A5", "U+8FDE", "U+63A5">>, tag_name |-> "LocalNetwork IP"])

\* generate_loon_remote_rules: the order of the lines
loon_rule_order == <<
    "AI", "Telegram", "YouTube", "YouTubeMusic",
    "Netflix", "TikTok", "Spotify", "Steam",
    "Game", "E-Hentai", "PornSite", "Furrybar",
    "Stream_US", "Stream_TW", "Stream_JP", "Stream_Global",
    "Apple", "Microsoft", "Google", "GoogleFCM",
    "SogouPrivacy", "ADBlock", "LocalNetwork_Non-IP", "LocalNetwork_IP" >>

\* generate_surge_remote_rules: rule key -> (policy group name, tag, options)
surge_rule_policy_mapping ==
    ("AI" :> [policy_name |-> <<"A", "I">>, tag_name |-> "AI", options |-> ""]) @@
    ("Telegram" :> [policy_name |-> <<"T", "e", "l", "e", "g", "r", "a", "m">>, tag_name |-> "Telegram", options |-> ""]) @@
    ("YouTube" :> [policy_name |-> <<"Y", "o", "u", "T", "u", "b", "e">>, tag_name |-> "YouTube", options |-> ""]) @@
    ("YouTubeMusic" :> [policy_name |-> <<"Y", "o", "u", "T", "u", "b", "e">>, tag_name |-> "YouTube Music", options |-> ""]) @@
    ("Netflix" :> [policy_name |-> <<"N", "e", "t", "f", "l", "i", "x">>, tag_name |-> "Netflix", options |-> ""]) @@
    ("TikTok" :> [policy_name |-> <<"T", "i", "k", "T", "o", "k">>, tag_name |-> "TikTok", options |-> ""]) @@
    ("Spotify" :> [policy_name |-> <<"S", "p", "o", "t", "i", "f", "y">>, tag_name |-> "Spotify", options |-> ""]) @@
    ("Steam" :> [policy_name |-> <<"S", "t", "e", "a", "m">>, tag_name |-> "Steam", options |-> ""]) @@
    ("Game" :> [policy_name |-> <<"G", "a", "m", "e">>, tag_name |-> "Game", options |-> ""]) @@
    ("E-Hentai" :> [policy_name |-> <<"E", "-", "H", "e", "n", "t", "a", "i">>, tag_name |-> "E-Hentai", options |-> ""]) @@
    ("PornSite" :> [policy_name |-> <<"P", "o", "r", "n", "S", "i", "t", "e">>, tag_name |-> "PornSite", options |-> ""]) @@
    ("Furrybar" :> [policy_name |-> <<"P", "o", "r", "n", "S", "i", "t", "e">>, tag_name |-> "Furrybar", options |-> ""]) @@
    ("Stream_US" :> [policy_name |-> <<"U", "S", " ", "M", "e", "d", "i", "a">>, tag_name |-> "US Media", options |-> ""]) @@
    ("Stream_TW" :> [policy_name |-> <<"T", "a", "i", "w", "a", "n", " ", "M", "e", "d", "i", "a">>, tag_name |-> "Taiwan Media", options |-> ""]) @@
    ("Stream_JP" :> [policy_name |-> <<"J", "a", "p", "a", "n", " ", "M", "e", "d", "i", "a">>, tag_name |-> "Japan Media", options |-> ""]) @@
    ("Stream_Global" :> [policy_name |-> <<"G", "l", "o", "b", "a", "l", " ", "M", "e", "d", "i", "a">>, tag_name |-> "Global Media", options |-> ""]) @@
    ("Apple" :> [policy_name |-> <<"A", "p", "p", "l", "e">>, tag_name |-> "Apple", options |-> ""]) @@
    ("Microsoft" :> [policy_name |-> <<"M", "i", "c", "r", "o", "s", "o", "f", "t">>, tag_name |-> "Microsoft", options |-> ""]) @@
    ("Google" :> [policy_name |-> <<"G", "o", "o", "g", "l", "e">>, tag_name |-> "Google", options |-> ""]) @@
    ("GoogleFCM" :> [policy_name |-> <<"G", "o", "o", "g", "l", "e", " ", "F", "C", "M">>, tag_name |-> "Google FCM", options |-> ""]) @@
    ("SogouPrivacy" :> [policy_name |-> <<"S", "o", "g", "o", "u", " ", "P", "r", "i", "v", "a", "c", "y">>, tag_name |-> "Sogou Privacy", options |-> ""]) @@
    ("ADBlock" :> [policy_name |-> <<"A", "D", "B", "l", "o", "c", "k">>, tag_name |-> "ADBlock", options |-> "extended-matching"]) @@
    ("LocalNetwork_Non-IP" :> [policy_name |-> <<"U+76F4", "U+63A5", "U+8FDE", "U+63A5">>, tag_name |-> "LocalNetwork Non-IP", options |-> ""]) @@
    ("LocalNetwork_IP" :> [policy_name |-> <<"U+76F4", "U+63A5", "U+8FDE", "U+63A5">>, tag_name |-> "LocalNetwork IP", options |-> ""])

\* generate_surge_remote_rules: the order of the lines, ADBlock first
surge_rule_order == <<
    "ADBlock", "AI", "Telegram", "YouTube",
    "YouTubeMusic", "Netflix", "TikTok", "Spotify",
    "Steam", "Game", "E-Hentai", "PornSite",
    "Furrybar", "Stream_US", "Stream_TW", "Stream_JP",
    "Stream_Global", "Apple", "Microsoft", "Google",
    "GoogleFCM", "SogouPrivacy", "LocalNetwork_Non-IP", "LocalNetwork_IP" >>

\* The loop of get_rules over rule_order from entry i on.
RECURSIVE rule_set_lines(_, _)
rule_set_lines(all_rules, i) ==
    IF i > Len(rule_order) THEN << >>
    ELSE LET rule_key == rule_order[i]
         IN  (IF rule_key \in DOMAIN rule_mapping /\ rule_key \in DOMAIN all_rules
              THEN << [kind |-> "RULE-SET",
                       rule_name |-> rule_mapping[rule_key].rule_name,
                       policy_name |-> rule_mapping[rule_key].policy_name] >>
              ELSE << >>)
             \o rule_set_lines(all_rules, i + 1)

\* get_rules with GLOBAL as the policy of the MATCH line.
get_rules_match_global ==
    rule_set_lines(get_all_rules, 1)
        \o << [kind |-> "GEOIP", country |-> "CN", policy_name |-> DIRECT_CONNECT],
              [kind |-> "MATCH", policy_name |-> <<"G", "L", "O", "B", "A", "L">>] >>

\* BaseLoader.get_rules: the RULE-SET lines, then 'GEOIP,CN,<direct group>'
\* and 'MATCH,<primary selector>'.
get_rules ==
    rule_set_lines(get_all_rules, 1)
        \o << [kind |-> "GEOIP", country |-> "CN", policy_name |-> DIRECT_CONNECT],
              [kind |-> "MATCH", policy_name |-> SELECT_PROXY] >>

\* The loop of generate_loon_remote_rules from entry i on; a line is
\* f"{url}, policy = {policy_name}, tag = {tag_name}, enabled = true".
RECURSIVE loon_remote_rules(_, _)
loon_remote_rules(all_rules, i) ==
    IF i > Len(loon_rule_order) THEN << >>
    ELSE LET rule_key == loon_rule_order[i]
             rule_url == generate_rule_url(rule_key, all_rules[rule_key], LOON)
         IN  (IF rule_key \notin DOMAIN all_rules THEN << >>
              ELSE IF is_falsy(rule_url) THEN << >>
              ELSE IF rule_key \in DOMAIN loon_rule_policy_mapping
              THEN << [kind |-> "remote",
                       url |-> rule_url,
                       policy_name |-> loon_rule_policy_mapping[rule_key].policy_name,
                       tag_name |-> loon_rule_policy_mapping[rule_key].tag_name,
                       enabled |-> TRUE] >>
              ELSE << [kind |-> "remote",
                       url |-> rule_url,
                       policy_name |-> dict_get(all_rules[rule_key], "name", << rule_key >>),
                       tag_name |-> dict_get(all_rules[rule_key], "name", << rule_key >>),
                       enabled |-> TRUE] >>)
             \o loon_remote_rules(all_rules, i + 1)

generate_loon_remote_rules == loon_remote_rules(get_all_rules, 1)

\* The loop of generate_surge_remote_rules from entry i on, appending to
\* remote_rules: a blank line unless the list is empty, '# tag', and
\* 'RULE-SET,url,policy_name[,options]'.
RECURSIVE surge_remote_rules(_, _, _)
surge_remote_rules(all_rules, i, remote_rules) ==
    IF i > Len(surge_rule_order) THEN remote_rules
    ELSE LET rule_key == surge_rule_order[i]
             rule_url == generate_rule_url(rule_key, all_rules[rule_key], SURGE)
             mapped == rule_key \in DOMAIN surge_rule_policy_mapping
             policy_name == IF mapped
                            THEN surge_rule_policy_mapping[rule_key].policy_name
                            ELSE dict_get(all_rules[rule_key], "name", << rule_key >>)
             tag_name == IF mapped THEN surge_rule_policy_mapping[rule_key].tag_name
                         ELSE policy_name
             options == IF mapped THEN surge_rule_policy_mapping[rule_key].options
                        ELSE ""
         IN  IF rule_key \notin DOMAIN all_rules
             THEN surge_remote_rules(all_rules, i + 1, remote_rules)
             ELSE IF is_falsy(rule_url)
             THEN surge_remote_rules(all_rules, i + 1, remote_rules)
             ELSE surge_remote_rules(all_rules, i + 1,
                      remote_rules
                          \o (IF remote_rules # << >> THEN << [kind |-> "blank"] >>
                              ELSE << >>)
                          \o << [kind |-> "comment", tag_name |-> tag_name],
                                [kind |-> "RULE-SET", url |-> rule_url,
                                 policy_name |-> policy_name, options |-> options] >>)

generate_surge_remote_rules == surge_remote_rules(get_all_rules, 1, << >>)

\* LoonGenerator: [Remote Rule] and [Rule], 'GEOIP, CN, <direct group>' and
\* 'FINAL, <primary selector>'.
loon_rule_lines_of(remote_rules) ==
    remote_rules
        \o << [kind |-> "GEOIP", country |-> "CN", policy_name |-> DIRECT_CONNECT],
              [kind |-> "FINAL", policy_name |-> SELECT_PROXY] >>

loon_rule_lines == loon_rule_lines_of(generate_loon_remote_rules)

\* SurgeGenerator._generate_rule_section: the remote rules, then
\* 'RULE-SET,LAN,<direct group>', 'GEOIP,CN,<direct group>' and
\* 'FINAL,<primary selector>,dns-failed', each under a comment.
surge_rule_lines_of(remote_rules) ==
    remote_rules
        \o << [kind |-> "blank"],
              [kind |-> "comment", tag_name |-> "LAN"],
              [kind |-> "RULE-SET", url |-> << "LAN" >>,
               policy_name |-> DIRECT_CONNECT, options |-> ""],
              [kind |-> "blank"],
              [kind |-> "comment", tag_name |-> "GeoIP CN"],
              [kind |-> "GEOIP", country |-> "CN", policy_name |-> DIRECT_CONNECT],
              [kind |-> "blank"],
              [kind |-> "comment", tag_name |-> "Final"],
              [kind |-> "FINAL", policy_name |-> SELECT_PROXY, options |-> "dns-failed"] >>

surge_rule_lines == surge_rule_lines_of(generate_surge_remote_rules)

(***************************************************************************)
(* The JS override script (the template of generate_js_script.py)          *)
(***************************************************************************)
\* countriesMeta: the patterns of COUNTRIES_META, in the order Hong Kong,
\* Taiwan, Singapore, Japan, United States.
countriesMeta == << COUNTRIES_META[1], COUNTRIES_META[2], COUNTRIES_META[5],
                    COUNTRIES_META[4], COUNTRIES_META[3] >>

\* getCountryGroupNames: countryOrder
countryOrder == [i \in 1..Len(countriesMeta) |-> countriesMeta[i].name]

\* parseCountries: ispRegex, and compiledRegex (flag 'i')
ispRegex == re_compile(ISP_EXCLUDE_PATTERN)

compiledRegex == [i \in 1..Len(countriesMeta) |-> re_compile(countriesMeta[i].pattern)]

\* The inner loop of parseCountries from entry i on: the first region whose
\* regex tests true, None when there is none.
RECURSIVE js_first_match(_, _)
js_first_match(name, i) ==
    IF i > Len(countriesMeta) THEN None
    ELSE IF re_search(compiledRegex[i], name) THEN countriesMeta[i].name
    ELSE js_first_match(name, i + 1)

\* countryCounts[country] = (countryCounts[country] || 0) + 1, on the entries
\* of countryCounts in insertion order.
js_count(result, c) ==
    IF \E k \in 1..Len(result) : result[k].country = c
    THEN [k \in 1..Len(result) |->
            IF result[k].country = c
            THEN [country |-> c, count |-> result[k].count + 1]
            ELSE result[k]]
    ELSE Append(result, [country |-> c, count |-> 1])

RECURSIVE parseCountries_loop(_, _, _)
parseCountries_loop(names, i, result) ==
    IF i > Len(names) THEN result
    ELSE IF re_search(ispRegex, names[i])
    THEN parseCountries_loop(names, i + 1, result)
    ELSE LET c == js_first_match(names[i], 1)
         IN  IF c = None THEN parseCountries_loop(names, i + 1, result)
             ELSE parseCountries_loop(names, i + 1, js_count(result, c))

parseCountries(names) == parseCountries_loop(names, 1, << >>)

\* getCountryGroupNames
getCountryGroupNames(countryInfo, minCount) ==
    LET filtered == SelectSeq(countryInfo, LAMBDA item : item.count >= minCount)
        found(c) == SelectSeq(filtered, LAMBDA item : item.country = c)
        RECURSIVE sorted(_)
        sorted(i) == IF i > Len(countryOrder) THEN << >>
                     ELSE (IF found(countryOrder[i]) # << >>
                           THEN << found(countryOrder[i])[1] >> ELSE << >>)
                          \o sorted(i + 1)
        otherCountries ==
            SelectSeq(filtered, LAMBDA item : ~list_contains(countryOrder, item.country))
        all == sorted(1) \o otherCountries
    IN  [i \in 1..Len(all) |-> all[i].country \o NODE_SUFFIX]

\* stripNodeSuffix
stripNodeSuffix(groupNames) ==
    [i \in 1..Len(groupNames) |->
        IF endswith(groupNames[i], NODE_SUFFIX)
        THEN SubSeq(groupNames[i], 1, Len(groupNames[i]) - Len(NODE_SUFFIX))
        ELSE groupNames[i]]

\* buildBaseLists
defaultSelector(countryGroupNames) ==
    countryGroupNames \o << OTHER_NODES, MANUAL_SELECT, DIRECT >>

defaultProxies(countryGroupNames) ==
    << SELECT_PROXY >> \o countryGroupNames
        \o << OTHER_NODES, MANUAL_SELECT, DIRECT_CONNECT >>

\* buildCountryProxyGroups
RECURSIVE buildCountryProxyGroups(_)
buildCountryProxyGroups(countries) ==
    IF countries = << >> THEN << >>
    ELSE LET meta == SelectSeq(countriesMeta, LAMBDA m : m.name = Head(countries))
         IN  (IF meta = << >> THEN << >>
              ELSE << [name |-> Head(countries) \o NODE_SUFFIX,
                       icon |-> meta[1].icon,
                       include_all |-> TRUE,
                       filter |-> meta[1].pattern,
                       type |-> "url-test"] >>)
             \o buildCountryProxyGroups(Tail(countries))

\* The 'other' group of buildProxyGroups: mainCountries in the order Hong
\* Kong, Taiwan, United States, Japan, Singapore.
js_other_group ==
    [name |-> OTHER_NODES,
     icon |-> "Global.png",
     include_all |-> TRUE,
     type |-> "select",
     exclude_filter |->
        Alternation(TRUE, COUNTRIES_META[1].pattern.alts \o COUNTRIES_META[2].pattern.alts
                            \o COUNTRIES_META[3].pattern.alts \o COUNTRIES_META[4].pattern.alts
                            \o COUNTRIES_META[5].pattern.alts)]

\* buildProxyGroups, after .filter(Boolean)
buildProxyGroups(countries, countryProxyGroups, countryGroupNames) ==
    LET shared == defaultProxies(countryGroupNames)
        media(region, name, icon) ==
            IF list_contains(countries, region)
            THEN << plain_group(name, icon, << region \o NODE_SUFFIX, SELECT_PROXY,
                                               MANUAL_SELECT, DIRECT_CONNECT >>) >>
            ELSE << >>
        direct_first == << DIRECT_CONNECT, SELECT_PROXY >> \o countryGroupNames
                            \o << MANUAL_SELECT >>
    IN  << plain_group(SELECT_PROXY, "Proxy.png", defaultSelector(countryGroupNames)),
           [name |-> MANUAL_SELECT, icon |-> "Round_Robin_1.png",
            include_all |-> TRUE, type |-> "select"],
           plain_group(<<"A", "I">>, "AI.png", shared),
           plain_group(<<"T", "e", "l", "e", "g", "r", "a", "m">>, "Telegram.png", shared),
           plain_group(<<"Y", "o", "u", "T", "u", "b", "e">>, "YouTube.png", shared),
           plain_group(<<"N", "e", "t", "f", "l", "i", "x">>, "Netflix.png", shared),
           plain_group(<<"S", "p", "o", "t", "i", "f", "y">>, "Spotify.png", shared),
           plain_group(<<"T", "i", "k", "T", "o", "k">>, "TikTok.png", shared),
           plain_group(<<"S", "t", "e", "a", "m">>, "Steam.png", shared),
           plain_group(<<"G", "a", "m", "e">>, "Game.png", shared),
           plain_group(<<"E", "-", "H", "e", "n", "t", "a", "i">>, "Ehentai.png", shared),
           plain_group(<<"P", "o", "r", "n", "S", "i", "t", "e">>, "Pornhub.png", shared) >>
        \o media(COUNTRIES_META[3].name, <<"U", "S", " ", "M", "e", "d", "i", "a">>,
                 "United_States.png")
        \o media(COUNTRIES_META[2].name,
                 <<"T", "a", "i", "w", "a", "n", " ", "M", "e", "d", "i", "a">>, "Taiwan.png")
        \o media(COUNTRIES_META[4].name,
                 <<"J", "a", "p", "a", "n", " ", "M", "e", "d", "i", "a">>, "Japan.png")
        \o << plain_group(<<"G", "l", "o", "b", "a", "l", " ", "M", "e", "d", "i", "a">>,
                          "DomesticMedia.png", shared),
              plain_group(<<"A", "p", "p", "l", "e">>, "Apple.png", direct_first),
              plain_group(<<"M", "i", "c", "r", "o", "s", "o", "f", "t">>, "Microsoft.png",
                          direct_first),
              plain_group(<<"G", "o", "o", "g", "l", "e">>, "Google_Search.png", shared),
              plain_group(<<"G", "o", "o", "g", "l", "e", " ", "F", "C", "M">>, "Firebase.png",
                          << <<"G", "o", "o", "g", "l", "e">>, DIRECT_CONNECT >>),
              plain_group(<<"S", "o", "g", "o", "u", " ", "P", "r", "i", "v", "a", "c", "y">>,
                          "Sougou.png", << DIRECT_CONNECT, REJECT >>),
              plain_group(<<"A", "D", "B", "l", "o", "c", "k">>, "AdBlack.png",
                          << REJECT_DROP, REJECT, DIRECT_CONNECT >>),
              plain_group(DIRECT_CONNECT, "Direct.png", << DIRECT, SELECT_PROXY >>) >>
        \o countryProxyGroups
        \o << js_other_group >>

\* buildProxyGroups gives the one array defaultProxies to every group of the
\* shared list (AI is the first); every other member list is an array of
\* its own.
js_proxies_identities(groups) ==
    LET shared == {i \in 1..Len(groups) :
                      /\ "proxies" \in DOMAIN groups[i]
                      /\ \E k \in 1..Len(groups) :
                            /\ groups[k].name = << "A", "I" >>
                            /\ groups[i].proxies = groups[k].proxies}
    IN  [i \in 1..Len(groups) |->
            IF "proxies" \notin DOMAIN groups[i] THEN 0
            ELSE IF i \in shared THEN CHOOSE k \in shared : \A l \in shared : k <= l
            ELSE i]

\* main(config): the proxy groups, with GLOBAL pushed last.
main(names, countryThreshold) ==
    LET countryInfo == parseCountries(names)
        countryGroupNames == getCountryGroupNames(countryInfo, countryThreshold)
        countries == stripNodeSuffix(countryGroupNames)
        countryProxyGroups == buildCountryProxyGroups(countries)
        proxyGroups == buildProxyGroups(countries, countryProxyGroups, countryGroupNames)
        globalProxies == [i \in 1..Len(proxyGroups) |-> proxyGroups[i].name]
    IN  Append(proxyGroups,
               [name |-> <<"G", "L", "O", "B", "A", "L">>, icon |-> "Global.png",
                include_all |-> TRUE, type |-> "select", proxies |-> globalProxies])

(***************************************************************************)
(* Values shared by the specifications.                                    *)
(***************************************************************************)
\* A variable that holds no result yet.
NoResult == << >>

\* The characters node names are drawn from when a single name is
\* classified: gang (U+6E2F, Hong Kong), tai (U+53F0, Taiwan), "u" and "S"
\* (US, in mixed case), ri ben (U+65E5 U+672C, Japan), po (U+5761,
\* Singapore), luo di (U+843D U+5730, landing node) and a neutral "x".
NameChars ==
    {"U+6E2F", "U+53F0", "u", "S", "U+65E5", "U+672C", "U+5761",
     "U+843D", "U+5730", "x"}

Names == UNION {[1..n -> NameChars] : n \in 0..MaxNameLen}

(***************************************************************************)
(* SpecClassify: one call of identify_country on an arbitrary name.        *)
(***************************************************************************)
InitClassify ==
    /\ pc = "start"
    /\ node_name \in Names
    /\ exclude_isp \in BOOLEAN
    /\ country = NoResult
    /\ node_names = << >>
    /\ min_count = 0
    /\ country_counts = << >>
    /\ country_info_list = << >>
    /\ proxy_groups = << >>
    /\ proxies_ids = << >>
    /\ yaml_str = << >>
    /\ NoRuleLoader

IdentifyCountry ==
    /\ pc = "start"
    /\ country' = identify_country(node_name, exclude_isp)
    /\ pc' = "classified"
    /\ UNCHANGED rule_vars
    /\ UNCHANGED << node_name, exclude_isp, node_names, min_count,
                    country_counts, country_info_list, proxy_groups >>
    /\ UNCHANGED proxies_ids
    /\ UNCHANGED yaml_str

NextClassify == IdentifyCountry

SpecClassify == InitClassify /\ [][NextClassify]_vars

(***************************************************************************)
(* Properties of the classifier.                                           *)
(***************************************************************************)
\* Region i of the table matches the name (its pattern occurs in the name).
RegionMatches(i, name) == re_search(country_regexes[i], name)

IspMatches(name) == re_search(isp_exclude_regex, name)

RegionNames == {COUNTRIES_META[i].name : i \in 1..Len(COUNTRIES_META)}

\* C1: a name that is not excluded is classified as the first region of the
\* table, in table order, whose pattern it matches; a name that matches some
\* region pattern is never classified as 'other'.
C1_PriorityDeterminism ==
    (pc = "classified" /\ ~(exclude_isp /\ IspMatches(node_name))) =>
        /\ \A i \in 1..Len(COUNTRIES_META) :
              (/\ RegionMatches(i, node_name)
               /\ \A j \in 1..(i - 1) : ~RegionMatches(j, node_name))
              => country = COUNTRIES_META[i].name
        /\ (\E i \in 1..Len(COUNTRIES_META) : RegionMatches(i, node_name))
              => country # OTHER_COUNTRY

\* A classified name that matches two regions and is not excluded.
C1_Witness ==
    /\ pc = "classified"
    /\ ~(exclude_isp /\ IspMatches(node_name))
    /\ \E i, j \in 1..Len(COUNTRIES_META) :
          /\ i < j
          /\ RegionMatches(i, node_name)
          /\ RegionMatches(j, node_name)
          /\ country = COUNTRIES_META[i].name

\* C2: with exclude_isp set, a name that matches the ISP-exclusion pattern is
\* classified as excluded (None), whether or not a region pattern matches too.
C2_ExclusionPrecedence ==
    (pc = "classified" /\ exclude_isp /\ IspMatches(node_name))
        => country = None

\* An excluded name that also matches a region pattern.
C2_Witness ==
    /\ pc = "classified"
    /\ exclude_isp
    /\ IspMatches(node_name)
    /\ \E i \in 1..Len(COUNTRIES_META) : RegionMatches(i, node_name)
    /\ country = None

NodePool == {
    <<"H", "o", "n", "g", " ", "K", "o", "n", "g", " ", "0", "1">>,
    <<"T", "o", "k", "y", "o", " ", "0", "1">>,
    <<"U+53F0", "U+6E7E", " ", "H", "i", "N", "e", "t", " ", "0", "1">>,
    <<"U+7F8E", "U+56FD", " ", "U+6D1B", "U+6749", "U+77F6", " ", "0", "1">>,
    <<"U+65E5", "U+672C", " ", "U+4E1C", "U+4EAC", " ", "N", "T", "T", " ", "0", "1">>,
    <<"U+9999", "U+6E2F", "U+5BB6", "U+5BBD", "U+843D", "U+5730", " ", "0", "1">> }

\* The scenario list: 'Hong Kong 01', 'Hong Kong 02', 'Tokyo 01',
\* 'Family Broadband Landing 01'.
ScenarioNodes == <<
    <<"H", "o", "n", "g", " ", "K", "o", "n", "g", " ", "0", "1">>,
    <<"H", "o", "n", "g", " ", "K", "o", "n", "g", " ", "0", "2">>,
    <<"T", "o", "k", "y", "o", " ", "0", "1">>,
    <<"F", "a", "m", "i", "l", "y", " ", "B", "r", "o", "a", "d", "b", "a", "n", "d", " ", "L", "a", "n", "d", "i", "n", "g", " ", "0", "1">> >>

NodeLists == {ScenarioNodes} \cup UNION {[1..n -> NodePool] : n \in 0..MaxNodes}

MinCounts == (0 - 1)..MaxMinCount

Init ==
    /\ pc = "start"
    /\ node_names \in NodeLists
    /\ exclude_isp = TRUE
    /\ min_count = 0
    /\ node_name = << >>
    /\ country = NoResult
    /\ country_counts = << >>
    /\ country_info_list = << >>
    /\ proxy_groups = << >>
    /\ proxies_ids = << >>
    /\ yaml_str = << >>
    /\ NoRuleLoader

\* parser.parse_nodes(node_names, exclude_isp)
ParseNodes ==
    /\ pc = "start"
    /\ \E excl \in BOOLEAN :
          /\ exclude_isp' = excl
          /\ country_counts' = parse_nodes(node_names, excl)
    /\ pc' = "parsed"
    /\ UNCHANGED rule_vars
    /\ UNCHANGED << node_name, country, node_names, min_count,
                    country_info_list, proxy_groups >>
    /\ UNCHANGED proxies_ids
    /\ UNCHANGED yaml_str

\* parser.get_country_info_list(node_names, exclude_isp, min_count)
GetCountryInfoList ==
    /\ pc = "start"
    /\ \E excl \in BOOLEAN, m \in MinCounts :
          /\ exclude_isp' = excl
          /\ min_count' = m
          /\ country_info_list' = get_country_info_list(node_names, excl, m)
    /\ pc' = "listed"
    /\ UNCHANGED rule_vars
    /\ UNCHANGED << node_name, country, node_names, country_counts, proxy_groups >>
    /\ UNCHANGED proxies_ids
    /\ UNCHANGED yaml_str

\* generator.generate_all_groups(node_names, min_country_nodes)
GenerateAllGroups ==
    /\ pc = "start"
    /\ \E m \in MinCounts :
          LET result == generate_all_groups(node_names, m)
          IN  /\ min_count' = m
              /\ country_info_list' = result.country_info
              /\ proxy_groups' = result.proxy_groups
    /\ pc' = "generated"
    /\ UNCHANGED rule_vars
    /\ UNCHANGED << node_name, country, node_names, exclude_isp, country_counts >>
    /\ proxies_ids' = proxies_identities(proxy_groups')
    /\ UNCHANGED yaml_str

Next == ParseNodes \/ GetCountryInfoList \/ GenerateAllGroups

Spec == Init /\ [][Next]_vars

(***************************************************************************)
(* Properties of the aggregator.                                           *)
(***************************************************************************)
\* The keys a count may be kept under: the region names and 'other'.
CountKeys == RegionNames \cup {OTHER_COUNTRY}

\* What classify maps each entry of node_names to.
Classes ==
    [i \in 1..Len(node_names) |-> identify_country(node_names[i], exclude_isp)]

\* The number of entries that cls maps to key.
Count(cls, key) == Cardinality({i \in 1..Len(cls) : cls[i] = key})

\* The position of a region name in the table (0 for a name not in it).
TableIndex(name) ==
    IF name \in RegionNames
    THEN CHOOSE i \in 1..Len(COUNTRIES_META) : COUNTRIES_META[i].name = name
    ELSE 0

RECURSIVE SumCounts(_, _)
SumCounts(d, keys) ==
    IF keys = {} THEN 0
    ELSE LET k == CHOOSE x \in keys : TRUE
         IN  d[k] + SumCounts(d, keys \ {k})

\* C4: parse_nodes returns, for each region name and for 'other', the number
\* of list entries classify maps to it (duplicates counted one by one);
\* excluded entries are counted under no key, so the counts add up to the
\* number of entries that are not excluded.
C4_CountsAreExact ==
    pc = "parsed" =>
        LET cls == Classes
        IN  /\ DOMAIN country_counts \subseteq CountKeys
            /\ \A key \in CountKeys :
                  dict_get(country_counts, key, 0) = Count(cls, key)
            /\ SumCounts(country_counts, DOMAIN country_counts)
                  = Len(node_names) - Count(cls, None)

\* A parsed list with the same name twice and with an excluded entry.
C4_Witness ==
    /\ pc = "parsed"
    /\ \E i, j \in 1..Len(node_names) : i < j /\ node_names[i] = node_names[j]
    /\ Count(Classes, None) > 0
    /\ \E key \in DOMAIN country_counts : country_counts[key] > 1

\* The positions of the named-region summaries of a summary list.
NamedPositions(infos) == {k \in 1..Len(infos) : infos[k].name # OTHER_COUNTRY}

HasOther(infos) == \E k \in 1..Len(infos) : infos[k].name = OTHER_COUNTRY

\* C5: get_country_info_list returns one summary for each table region whose
\* count is >= min_count (a count-0 region only when min_count <= 0), in
\* table order, each with its exact count, followed by an 'other' summary as
\* the last element if and only if the count of 'other' is > 0.
C5_SummaryList ==
    pc = "listed" =>
        LET infos == country_info_list
            named == NamedPositions(infos)
            cls == Classes
        IN  /\ \A i \in 1..Len(COUNTRIES_META) :
                  (Count(cls, COUNTRIES_META[i].name) >= min_count)
                  <=> (\E k \in named : infos[k].name = COUNTRIES_META[i].name)
            /\ \A k \in named :
                  /\ infos[k].name \in RegionNames
                  /\ infos[k].count = Count(cls, infos[k].name)
                  /\ infos[k].pattern = COUNTRIES_META[TableIndex(infos[k].name)].pattern
                  /\ (infos[k].count = 0 => min_count <= 0)
            /\ \A k, l \in named :
                  k < l => TableIndex(infos[k].name) < TableIndex(infos[l].name)
            /\ HasOther(infos) <=> (Count(cls, OTHER_COUNTRY) > 0)
            /\ \A k \in 1..Len(infos) :
                  infos[k].name = OTHER_COUNTRY
                  => (k = Len(infos) /\ infos[k].count = Count(cls, OTHER_COUNTRY))

\* A summary list under a threshold above 1 with a region kept, the other
\* regions dropped, and the 'other' summary at the end although its count is
\* below the threshold.
C5_Witness ==
    /\ pc = "listed"
    /\ min_count > 1
    /\ NamedPositions(country_info_list) # {}
    /\ Len(country_info_list) < Len(COUNTRIES_META)
    /\ HasOther(country_info_list)
    /\ country_info_list[Len(country_info_list)].count < min_count

\* The (name, count) pairs of the named-region summaries, in list order.
RECURSIVE NamedSummaries(_)
NamedSummaries(infos) ==
    IF infos = << >> THEN << >>
    ELSE (IF Head(infos).name = OTHER_COUNTRY THEN << >>
          ELSE << << Head(infos).name, Head(infos).count >> >>)
         \o NamedSummaries(Tail(infos))

\* a is a sub-list of b: a is b with some elements left out.
RECURSIVE IsSubList(_, _)
IsSubList(a, b) ==
    IF a = << >> THEN TRUE
    ELSE IF b = << >> THEN FALSE
    ELSE IF Head(a) = Head(b) THEN IsSubList(Tail(a), Tail(b))
    ELSE IsSubList(a, Tail(b))

\* C6: for the list summarized at min_count and every threshold m2 >= it,
\* the named-region summaries at m2 are a sub-list of those at min_count, and
\* the 'other' summary is present at m2 iff it is present at min_count.
C6_ThresholdMonotone ==
    pc = "listed" =>
        \A m2 \in MinCounts :
            m2 >= min_count =>
                LET at2 == get_country_info_list(node_names, exclude_isp, m2)
                IN  /\ IsSubList(NamedSummaries(at2), NamedSummaries(country_info_list))
                    /\ HasOther(at2) <=> HasOther(country_info_list)

\* Raising the threshold drops a named region and keeps 'other'.
C6_Witness ==
    /\ pc = "listed"
    /\ HasOther(country_info_list)
    /\ \E m2 \in MinCounts :
          /\ m2 > min_count
          /\ Len(NamedSummaries(get_country_info_list(node_names, exclude_isp, m2)))
                < Len(NamedSummaries(country_info_list))

\* The (name, count) pairs of a summary list.
Summaries(infos) == [k \in 1..Len(infos) |-> << infos[k].name, infos[k].count >>]

ScenarioListed ==
    /\ pc = "listed"
    /\ node_names = ScenarioNodes
    /\ min_count = 2
    /\ exclude_isp

\* C7 as stated: the scenario list with threshold 2 and exclude_isp gives
\* exactly [Hong Kong: 2].
C7_ScenarioAsStated ==
    ScenarioListed => Summaries(country_info_list) = << << COUNTRIES_META[1].name, 2 >> >>

\* C7 as amended: the scenario list with threshold 2 and exclude_isp gives
\* [Hong Kong: 2, other: 2].  'Tokyo 01' matches no region pattern and
\* 'Family Broadband Landing 01' matches neither the ISP pattern nor a
\* region pattern, so both are counted as 'other'; no Japan summary appears
\* (its count is 0).
C7_Scenario ==
    ScenarioListed =>
        Summaries(country_info_list)
            = << << COUNTRIES_META[1].name, 2 >>, << OTHER_COUNTRY, 2 >> >>

\* The scenario list has been summarized: two summaries come back.
C7_Witness ==
    /\ ScenarioListed
    /\ Len(country_info_list) = 2

(***************************************************************************)
(* Properties of the composer.                                             *)
(***************************************************************************)
\* The region group names of the summaries the groups were built from.
RegionGroupNames == [k \in 1..Len(country_info_list) |->
                        country_info_list[k].name \o NODE_SUFFIX]

\* The canonical shared member list.
CanonicalList ==
    << SELECT_PROXY >> \o RegionGroupNames \o << MANUAL_SELECT, DIRECT_CONNECT >>

\* The positions of the policy tier: after the two base groups, before the
\* region tier.
PolicyTier ==
    {i \in 1..Len(proxy_groups) :
        /\ proxy_groups[i].name \notin {SELECT_PROXY, MANUAL_SELECT}
        /\ i <= Len(proxy_groups) - Len(country_info_list)}

\* The positions of the policy-tier groups of a given name.
PolicyGroupsNamed(name) == {i \in PolicyTier : proxy_groups[i].name = name}

\* The three country-media groups, each with the region whose group it
\* short-circuits to.
MediaGroups == {
    [name |-> <<"U", "S", " ", "M", "e", "d", "i", "a">>, region |-> COUNTRIES_META[3].name],
    [name |-> <<"T", "a", "i", "w", "a", "n", " ", "M", "e", "d", "i", "a">>, region |-> COUNTRIES_META[2].name],
    [name |-> <<"J", "a", "p", "a", "n", " ", "M", "e", "d", "i", "a">>, region |-> COUNTRIES_META[4].name] }

SummaryPresent(region) ==
    \E k \in 1..Len(country_info_list) : country_info_list[k].name = region

\* C8: each of the three country-media groups is present in the policy tier;
\* its member list is [the region's group, primary selector, manual group,
\* direct group] if that region's summary is among the inputs, and the
\* canonical list otherwise.
C8_MediaGroupSwap ==
    pc = "generated" =>
        \A mg \in MediaGroups :
            /\ Cardinality(PolicyGroupsNamed(mg.name)) = 1
            /\ \A i \in PolicyGroupsNamed(mg.name) :
                  proxy_groups[i].proxies =
                      IF SummaryPresent(mg.region)
                      THEN << mg.region \o NODE_SUFFIX, SELECT_PROXY,
                              MANUAL_SELECT, DIRECT_CONNECT >>
                      ELSE CanonicalList

\* Groups built from summaries in which one media region is present and
\* another is absent.
C8_Witness ==
    /\ pc = "generated"
    /\ \E a, b \in MediaGroups :
          /\ SummaryPresent(a.region)
          /\ ~SummaryPresent(b.region)
          /\ \E i \in PolicyGroupsNamed(b.name) :
                proxy_groups[i].proxies = CanonicalList

\* The policy groups with a member list of their own whatever the input:
\* Apple, Microsoft, Google FCM, Sogou Privacy, ADBlock, the direct group.
OwnListGroups == {
    <<"A", "p", "p", "l", "e">>,
    <<"M", "i", "c", "r", "o", "s", "o", "f", "t">>,
    <<"G", "o", "o", "g", "l", "e", " ", "F", "C", "M">>,
    <<"S", "o", "g", "o", "u", " ", "P", "r", "i", "v", "a", "c", "y">>,
    <<"A", "D", "B", "l", "o", "c", "k">>,
    DIRECT_CONNECT }

\* The country-media groups that are swapped for these summaries.
SwappedMediaGroups == {mg.name : mg \in {x \in MediaGroups : SummaryPresent(x.region)}}

\* The region group names are in table order, 'other' last.
InPriorityOrder ==
    \A k, l \in 1..Len(country_info_list) :
        k < l =>
            /\ country_info_list[k].name # OTHER_COUNTRY
            /\ (country_info_list[l].name # OTHER_COUNTRY
                => TableIndex(country_info_list[k].name)
                       < TableIndex(country_info_list[l].name))

\* C9: every policy-tier group other than the swapped country-media groups,
\* Apple, Microsoft, Google FCM, Sogou Privacy, ADBlock and the direct group
\* has exactly the canonical member list [primary selector, every region
\* group in priority order, manual group, direct group].
C9_CanonicalList ==
    pc = "generated" =>
        /\ InPriorityOrder
        /\ \A i \in PolicyTier :
              proxy_groups[i].name \notin (OwnListGroups \cup SwappedMediaGroups)
              => proxy_groups[i].proxies = CanonicalList

\* Groups built from at least two region summaries, 'other' among them, with
\* a shared-list group (GLOBAL) carrying the canonical list.
C9_Witness ==
    /\ pc = "generated"
    /\ Len(country_info_list) > 1
    /\ HasOther(country_info_list)
    /\ \E i \in PolicyTier :
          /\ proxy_groups[i].name = <<"G", "L", "O", "B", "A", "L">>
          /\ proxy_groups[i].proxies = CanonicalList

PlatformVendorGroups == {
    <<"A", "p", "p", "l", "e">>,
    <<"M", "i", "c", "r", "o", "s", "o", "f", "t">> }

NamedRegionGroupNames ==
    LET named == NamedSummaries(country_info_list)
    IN  [k \in 1..Len(named) |-> named[k][1] \o NODE_SUFFIX]

\* The positions of the base tier: the groups before the first policy group.
BaseTier == {i \in 1..Len(proxy_groups) : \A j \in PolicyTier : i < j}

\* C11 as stated: the base tier is exactly two groups: the primary selector,
\* whose member list is the named-region group names in priority order, then
\* the 'other' group name, then the manual group, then DIRECT; and the manual
\* group, with the include-all flag and no member list.
C11_BaseTierAsStated ==
    pc = "generated" =>
        /\ BaseTier = {1, 2}
        /\ proxy_groups[1].name = SELECT_PROXY
        /\ proxy_groups[1].proxies =
               NamedRegionGroupNames \o << OTHER_NODES, MANUAL_SELECT, DIRECT >>
        /\ proxy_groups[2].name = MANUAL_SELECT
        /\ "proxies" \notin DOMAIN proxy_groups[2]
        /\ proxy_groups[2].include_all = TRUE

\* C11 as amended: the base tier is exactly two groups: the primary selector,
\* whose member list is the named-region group names in priority order, then
\* the 'other' group name if and only if the 'other' summary is among the
\* inputs, then the manual group, then DIRECT; and the manual group, with the
\* include-all flag and no member list.
C11_BaseTier ==
    pc = "generated" =>
        /\ BaseTier = {1, 2}
        /\ InPriorityOrder
        /\ proxy_groups[1].name = SELECT_PROXY
        /\ proxy_groups[1].proxies =
               NamedRegionGroupNames
                   \o (IF HasOther(country_info_list) THEN << OTHER_NODES >> ELSE << >>)
                   \o << MANUAL_SELECT, DIRECT >>
        /\ proxy_groups[2].name = MANUAL_SELECT
        /\ "proxies" \notin DOMAIN proxy_groups[2]
        /\ proxy_groups[2].include_all = TRUE

\* Groups built from summaries with a named region and without 'other': the
\* selector lists the region group, the manual group and DIRECT only.
C11_Witness ==
    /\ pc = "generated"
    /\ Len(country_info_list) > 0
    /\ ~HasOther(country_info_list)
    /\ ~list_contains(proxy_groups[1].proxies, OTHER_NODES)
    /\ list_contains(proxy_groups[1].proxies, DIRECT)

\* The tier of a group, told from the group itself: the base tier is the
\* primary selector and the manual group, the region tier is the groups that
\* select proxies by a pattern, the policy tier is the rest.
TierOf(group) ==
    IF group.name \in {SELECT_PROXY, MANUAL_SELECT} THEN 1
    ELSE IF "filter" \in DOMAIN group \/ "exclude_filter" \in DOMAIN group THEN 3
    ELSE 2

AnchorPositions == {i \in 1..Len(proxy_groups) : "yaml_anchor" \in DOMAIN proxy_groups[i]}

ReferencePositions == {i \in 1..Len(proxy_groups) : "yaml_reference" \in DOMAIN proxy_groups[i]}

\* C12: the groups are in the order base tier, policy tier, region tier, and
\* the anchor group of the canonical list is before every group that
\* references that list.
C12_TierOrder ==
    pc = "generated" =>
        /\ \A i, j \in 1..Len(proxy_groups) :
              i < j => TierOf(proxy_groups[i]) <= TierOf(proxy_groups[j])
        /\ {i \in 1..Len(proxy_groups) : TierOf(proxy_groups[i]) = 1} = {1, 2}
        /\ Cardinality({i \in 1..Len(proxy_groups) : TierOf(proxy_groups[i]) = 3})
               = Len(country_info_list)
        /\ Cardinality(AnchorPositions) = 1
        /\ \A j \in ReferencePositions :
              \E i \in AnchorPositions :
                  /\ i < j
                  /\ proxy_groups[i].yaml_anchor = proxy_groups[j].yaml_reference
                  /\ proxy_groups[i].proxies = proxy_groups[j].proxies

\* Groups of all three tiers, with groups that reference the anchor.
C12_Witness ==
    /\ pc = "generated"
    /\ \A t \in 1..3 : \E i \in 1..Len(proxy_groups) : TierOf(proxy_groups[i]) = t
    /\ ReferencePositions # {}
    /\ TierOf(proxy_groups[Len(proxy_groups)]) = 3

\* The region tier: the last groups, one per summary.
RegionTier(k) == proxy_groups[Len(proxy_groups) - Len(country_info_list) + k]

\* C13: the region tier has one group per summary, in the summaries' order:
\* a named region's group is a url-test group whose filter is the summary's
\* pattern, with interval 60, tolerance 20 and lazy false; the group of
\* 'other' is a select group with the include-all flag.
C13_RegionTier ==
    pc = "generated" =>
        /\ Len(proxy_groups) >= Len(country_info_list)
        /\ \A i \in 1..Len(proxy_groups) :
              TierOf(proxy_groups[i]) = 3
              <=> i > Len(proxy_groups) - Len(country_info_list)
        /\ \A k \in 1..Len(country_info_list) :
              LET info == country_info_list[k]
                  group == RegionTier(k)
              IN  /\ group.name = info.name \o NODE_SUFFIX
                  /\ IF info.name = OTHER_COUNTRY
                     THEN /\ group.type = "select"
                          /\ group.include_all = TRUE
                          /\ "filter" \notin DOMAIN group
                     ELSE /\ group.type = "url-test"
                          /\ group.filter = info.pattern
                          /\ group.interval = 60
                          /\ group.tolerance = 20
                          /\ group.lazy = FALSE

\* Groups built from summaries with a named region and 'other'.
C13_Witness ==
    /\ pc = "generated"
    /\ Len(country_info_list) > 1
    /\ HasOther(country_info_list)
    /\ RegionTier(1).type = "url-test"
    /\ RegionTier(Len(country_info_list)).type = "select"

(***************************************************************************)
(* SpecAdmit: generate_all_groups on an arbitrary name followed by a node  *)
(* of no region, so that the 'other' group is among the groups.            *)
(***************************************************************************)
\* 'Tokyo 01': no region pattern and no ISP keyword matches it.
ProbeCompanion == <<"T", "o", "k", "y", "o", " ", "0", "1">>

ProbeLists == {<< name, ProbeCompanion >> : name \in Names}

InitAdmit ==
    /\ pc = "start"
    /\ node_names \in ProbeLists
    /\ exclude_isp = TRUE
    /\ min_count = 0
    /\ node_name = << >>
    /\ country = NoResult
    /\ country_counts = << >>
    /\ country_info_list = << >>
    /\ proxy_groups = << >>
    /\ proxies_ids = << >>
    /\ yaml_str = << >>
    /\ NoRuleLoader

\* generator.generate_all_groups(node_names)
GenerateAllGroupsDefault ==
    /\ pc = "start"
    /\ LET result == generate_all_groups(node_names, DEFAULT_MIN_COUNTRY_NODES)
       IN  /\ min_count' = DEFAULT_MIN_COUNTRY_NODES
           /\ country_info_list' = result.country_info
           /\ proxy_groups' = result.proxy_groups
    /\ pc' = "generated"
    /\ UNCHANGED rule_vars
    /\ UNCHANGED << node_name, country, node_names, exclude_isp, country_counts >>
    /\ proxies_ids' = proxies_identities(proxy_groups')
    /\ UNCHANGED yaml_str

NextAdmit == GenerateAllGroupsDefault

SpecAdmit == InitAdmit /\ [][NextAdmit]_vars

\* A proxy of the given name is a member of an include-all group when the
\* group's filter, if any, matches the name and its exclude-filter, if any,
\* does not.
Admits(group, name) ==
    /\ "include_all" \in DOMAIN group
    /\ group.include_all
    /\ "filter" \in DOMAIN group => re_search(re_compile(group.filter), name)
    /\ "exclude_filter" \in DOMAIN group
          => ~re_search(re_compile(group.exclude_filter), name)

OtherGroups == {i \in 1..Len(proxy_groups) : proxy_groups[i].name = OTHER_NODES}

\* C14 as stated: the exclude pattern of the 'other' group rejects every name
\* that matches a named region pattern or the ISP-exclusion pattern, so a
\* node is admitted to the 'other' group if and only if
\* identify_country(name, exclude_isp = True) is 'other'.
C14_OtherAdmitsAsStated ==
    pc = "generated" =>
        \A i \in OtherGroups :
            \A k \in 1..Len(node_names) :
                Admits(proxy_groups[i], node_names[k])
                <=> identify_country(node_names[k], TRUE) = OTHER_COUNTRY

\* C14 as amended: the exclude pattern of the 'other' group is the
\* case-insensitive alternation of the named region patterns, without the
\* ISP-exclusion pattern: it rejects exactly the names that match a named
\* region pattern, so a node is admitted to the 'other' group if and only if
\* identify_country(name, exclude_isp = False) is 'other'.
C14_OtherAdmits ==
    pc = "generated" =>
        \A i \in OtherGroups :
            \A k \in 1..Len(node_names) :
                /\ ~Admits(proxy_groups[i], node_names[k])
                   <=> \E r \in 1..Len(COUNTRIES_META) : RegionMatches(r, node_names[k])
                /\ Admits(proxy_groups[i], node_names[k])
                   <=> identify_country(node_names[k], FALSE) = OTHER_COUNTRY

\* The 'other' group is generated and admits a name that matches the ISP
\* pattern and no region pattern, which identify_country(name, True) drops.
C14_Witness ==
    /\ pc = "generated"
    /\ OtherGroups # {}
    /\ IspMatches(node_names[1])
    /\ identify_country(node_names[1], TRUE) = None
    /\ \A i \in OtherGroups : Admits(proxy_groups[i], node_names[1])

(***************************************************************************)
(* The rule catalogs the renderers are run on.                             *)
(***************************************************************************)
\* The category of the table and a category that is not in it.
KnownCategory == << "Sukka" >>
UnknownCategory == << "X" >>

\* 'Categories': one category, with the template
\* 'h{proxytools}/{remotefile}.{filetype}'.
CatalogCategories ==
    KnownCategory :> [url |-> << "h", PROXYTOOLS, "/", REMOTEFILE, ".", FILETYPE >>]

\* 'Categories_Tools_List' and 'Categories_Filetype_List' of that category.
CatalogToolsMapping ==
    KnownCategory :> ((MIHOMO :> << "clash" >>) @@ (FALLBACK :> << "other" >>))

CatalogFiletypeMapping ==
    KnownCategory :> ((MIHOMO :> << "yaml" >>) @@ (FALLBACK :> << "list" >>))

\* Rule entries: one that resolves, one of an unknown category, one with an
\* empty name, and one without 'category' (no rule for _flatten_rules).
ResolvableRule ==
    [name |-> << "n" >>, category |-> KnownCategory,
     remotefile |-> << ".", "/", "r", ".", "list" >>, behavior |-> << "domain" >>]

UnknownCategoryRule ==
    [name |-> << "n" >>, category |-> UnknownCategory,
     remotefile |-> << "r", ".", "list" >>]

EmptyNameRule ==
    [name |-> << >>, category |-> KnownCategory, remotefile |-> << "r", ".", "list" >>]

NoCategoryRule == [name |-> << "n" >>, remotefile |-> << "r", ".", "list" >>]

RuleEntries == {ResolvableRule, UnknownCategoryRule, EmptyNameRule, NoCategoryRule}

\* The rule keys of the catalogs: three keys of the rule orders and one key
\* that no rule order lists.
RuleKeyPool == << "AI", "YouTubeMusic", "ADBlock", "Custom", "Google" >>

RuleKeys == {RuleKeyPool[i] : i \in 1..MaxRules}

\* Catalogs: rule entries under some of the keys, at the top level or under
\* a group key.
FlatCatalogs == UNION {[keys -> RuleEntries] : keys \in SUBSET RuleKeys}

Catalogs == FlatCatalogs \cup {"Group" :> c : c \in FlatCatalogs}

\* The RuleLoader of a renderer, on one of the given catalogs.
InitLoader(catalogs) ==
    /\ categories = CatalogCategories
    /\ tools_mapping = CatalogToolsMapping
    /\ filetype_mapping = CatalogFiletypeMapping
    /\ rules \in catalogs
    /\ rule_config = << >>
    /\ proxy_tool = << >>
    /\ url = << >>
    /\ rule_providers = << >>
    /\ rule_lines = << >>

\* What a renderer leaves alone of the RuleLoader.
loader_vars == << categories, tools_mapping, filetype_mapping, rule_config,
                  proxy_tool, url, rules >>

(***************************************************************************)
(* SpecRender: each renderer builds its group list from a node list that   *)
(* may be absent or empty.                                                 *)
(***************************************************************************)
InitRender ==
    /\ pc = "start"
    /\ node_names \in NodeLists \cup {NoNodeNames}
    /\ exclude_isp = TRUE
    /\ min_count = 0
    /\ node_name = << >>
    /\ country = NoResult
    /\ country_counts = << >>
    /\ country_info_list = << >>
    /\ proxy_groups = << >>
    /\ proxies_ids = << >>
    /\ yaml_str = << >>
    /\ InitLoader({<< >>, ("AI" :> ResolvableRule) @@ ("ADBlock" :> UnknownCategoryRule)})

\* MihomoGenerator.generate_yaml_config(node_names): config['proxy-groups']
GenerateYamlConfig ==
    /\ pc = "start"
    /\ proxy_groups' = build_proxy_groups(node_names)
    /\ pc' = "mihomo"
    /\ rule_providers' = generate_mihomo_rule_providers
    /\ rule_lines' = get_rules
    /\ UNCHANGED loader_vars
    /\ UNCHANGED << node_name, country, node_names, exclude_isp, min_count,
                    country_counts, country_info_list >>
    /\ proxies_ids' = proxies_identities(proxy_groups')
    /\ UNCHANGED yaml_str

\* StashGenerator.generate_stash_override_config(node_names)
GenerateStashOverrideConfig ==
    /\ pc = "start"
    /\ proxy_groups' = without_global(build_proxy_groups(node_names))
    /\ pc' = "stash_override"
    /\ rule_providers' = generate_mihomo_rule_providers
    /\ rule_lines' = get_rules
    /\ UNCHANGED loader_vars
    /\ UNCHANGED << node_name, country, node_names, exclude_isp, min_count,
                    country_counts, country_info_list >>
    /\ proxies_ids' = proxies_identities(proxy_groups')
    /\ yaml_str' = to_yaml_string(proxy_groups')

\* StashGenerator.generate_stash_full_config(node_names)
GenerateStashFullConfig ==
    /\ pc = "start"
    /\ proxy_groups' = without_global(build_proxy_groups(node_names))
    /\ pc' = "stash_full"
    /\ rule_providers' = generate_mihomo_rule_providers
    /\ rule_lines' = get_rules
    /\ UNCHANGED loader_vars
    /\ UNCHANGED << node_name, country, node_names, exclude_isp, min_count,
                    country_counts, country_info_list >>
    /\ proxies_ids' = proxies_identities(proxy_groups')
    /\ yaml_str' = to_yaml_string(proxy_groups')

\* LoonGenerator.generate_loon_config(node_names): the groups written to the
\* [Proxy Group] section.
GenerateLoonConfig ==
    /\ pc = "start"
    /\ proxy_groups' = without_global(build_proxy_groups(node_names))
    /\ pc' = "loon"
    /\ rule_providers' = << >>
    /\ rule_lines' = loon_rule_lines
    /\ UNCHANGED loader_vars
    /\ UNCHANGED << node_name, country, node_names, exclude_isp, min_count,
                    country_counts, country_info_list >>
    /\ proxies_ids' = proxies_identities(proxy_groups')
    /\ UNCHANGED yaml_str

\* SurgeGenerator.generate_surge_config(node_names): the groups written to
\* the [Proxy Group] section.
GenerateSurgeConfig ==
    /\ pc = "start"
    /\ proxy_groups' = without_global(build_proxy_groups(node_names))
    /\ pc' = "surge"
    /\ rule_providers' = << >>
    /\ rule_lines' = surge_rule_lines
    /\ UNCHANGED loader_vars
    /\ UNCHANGED << node_name, country, node_names, exclude_isp, min_count,
                    country_counts, country_info_list >>
    /\ proxies_ids' = proxies_identities(proxy_groups')
    /\ UNCHANGED yaml_str

NextRender ==
    \/ GenerateYamlConfig
    \/ GenerateStashOverrideConfig
    \/ GenerateStashFullConfig
    \/ GenerateLoonConfig
    \/ GenerateSurgeConfig

SpecRender == InitRender /\ [][NextRender]_vars

\* SpecConfig: the renderers on every catalog, for no node list, the empty
\* list and the scenario list.
InitConfig ==
    /\ pc = "start"
    /\ node_names \in {NoNodeNames, << >>, ScenarioNodes}
    /\ exclude_isp = TRUE
    /\ min_count = 0
    /\ node_name = << >>
    /\ country = NoResult
    /\ country_counts = << >>
    /\ country_info_list = << >>
    /\ proxy_groups = << >>
    /\ proxies_ids = << >>
    /\ yaml_str = << >>
    /\ InitLoader(Catalogs)

SpecConfig == InitConfig /\ [][NextRender]_vars

Rendered == pc \in {"mihomo", "stash_override", "stash_full", "loon", "surge"}

\* The names and member lists of a group list, in order; None for a group
\* without a member list.
Structure(groups) ==
    [i \in 1..Len(groups) |->
        << groups[i].name,
           IF "proxies" \in DOMAIN groups[i] THEN groups[i].proxies ELSE None >>]

\* The six region-group names of the default set.
DefaultRegionGroupNames ==
    {COUNTRIES_META[i].name \o NODE_SUFFIX : i \in 1..Len(COUNTRIES_META)}
        \cup {OTHER_NODES}

\* A member list without the default region-group names.
RECURSIVE WithoutRegionGroups(_)
WithoutRegionGroups(proxies) ==
    IF proxies = None \/ proxies = << >> THEN proxies
    ELSE (IF Head(proxies) \in DefaultRegionGroupNames THEN << >>
          ELSE << Head(proxies) >>)
         \o WithoutRegionGroups(Tail(proxies))

\* C15 as stated: generate_all_groups on a node list that yields no summaries
\* returns a non-empty group list with the same group names in the same
\* order and the same member lists as the groups of the default set.
C15_EmptySummariesAsStated ==
    (pc = "generated" /\ country_info_list = << >>) =>
        /\ proxy_groups # << >>
        /\ Structure(proxy_groups) = Structure(default_proxy_groups)

\* C15 as amended: generate_all_groups on a node list that yields no
\* summaries returns a non-empty group list of the base and policy tiers
\* only: the same group names in the same order as the base and policy tiers
\* of the default set, each member list being that of the default set without
\* the region-group names, and no region tier.
C15_EmptySummaries ==
    (pc = "generated" /\ country_info_list = << >>) =>
        LET structure == Structure(proxy_groups)
            default == Structure(default_proxy_groups)
            tiers == Len(default) - Len(default_country_info)
        IN  /\ proxy_groups # << >>
            /\ Len(structure) = tiers
            /\ \A i \in 1..Len(proxy_groups) : TierOf(proxy_groups[i]) # 3
            /\ \A i \in 1..tiers :
                  /\ structure[i][1] = default[i][1]
                  /\ structure[i][2] = WithoutRegionGroups(default[i][2])

\* Groups generated from a non-empty node list that yields no summaries: one
\* region's only node is below the threshold.
C15_Witness ==
    /\ pc = "generated"
    /\ node_names # << >>
    /\ country_info_list = << >>
    /\ proxy_groups # << >>

RegionTierGroups == {i \in 1..Len(proxy_groups) : TierOf(proxy_groups[i]) = 3}

ListedTool == << "Mihomo" >>
UnlistedTool == << "Loon" >>

\* Templates: up to MaxTemplateLen pieces, each a literal or a placeholder.
TemplatePieces == {"h", PROXYTOOLS, REMOTEFILE, FILETYPE}

Templates == UNION {[1..n -> TemplatePieces] : n \in 0..MaxTemplateLen}

\* The entries of the category table: a template under 'url', or no 'url'.
CategoryEntries == {[url |-> t] : t \in Templates} \cup {<< >>}

\* '', 'r.list', './r.list', './r', '.list', 'a.b.list'
RemoteFiles == {
    << >>,
    << "r", ".", "list" >>,
    << ".", "/", "r", ".", "list" >>,
    << ".", "/", "r" >>,
    << ".", "list" >>,
    << "a", ".", "b", ".", "list" >> }

\* Rule entries: with or without 'category', with or without 'remotefile'.
RuleConfigs ==
    {[category |-> c, remotefile |-> r] :
        c \in {<< >>, KnownCategory, UnknownCategory}, r \in RemoteFiles}
    \cup {[remotefile |-> r] : r \in RemoteFiles}
    \cup {[category |-> c] : c \in {KnownCategory, UnknownCategory}}

\* The mappings of one category: any of an entry for the listed tool and a
\* 'fallback' entry.
Mappings(values, fallback) ==
    {<< >>, FALLBACK :> fallback}
    \cup {ListedTool :> v : v \in values}
    \cup {(ListedTool :> v) @@ (FALLBACK :> fallback) : v \in values}

\* A mapping table: empty, or the same mapping for both categories.
MappingTables(values, fallback) ==
    {<< >>}
    \cup {[c \in {KnownCategory, UnknownCategory} |-> m] :
             m \in Mappings(values, fallback)}

ToolsTables == MappingTables({<< "clash" >>, << >>}, << "other" >>)

FiletypeTables == MappingTables({<< "yaml" >>, << >>}, << "txt" >>)

InitRuleUrl ==
    /\ pc = "start"
    /\ categories \in {[c \in {KnownCategory} |-> e] : e \in CategoryEntries}
    /\ tools_mapping \in ToolsTables
    /\ filetype_mapping \in FiletypeTables
    /\ rule_config \in RuleConfigs
    /\ proxy_tool \in {ListedTool, UnlistedTool}
    /\ url = << >>
    /\ rules = << >>
    /\ rule_providers = << >>
    /\ rule_lines = << >>
    /\ node_name = << >>
    /\ exclude_isp = TRUE
    /\ country = NoResult
    /\ node_names = << >>
    /\ min_count = 0
    /\ country_counts = << >>
    /\ country_info_list = << >>
    /\ proxy_groups = << >>
    /\ proxies_ids = << >>
    /\ yaml_str = << >>

\* loader.generate_rule_url(rule_name, rule_config, proxy_tool)
GenerateRuleUrl ==
    /\ pc = "start"
    /\ url' = generate_rule_url(<< "rule" >>, rule_config, proxy_tool)
    /\ pc' = "resolved"
    /\ UNCHANGED << categories, tools_mapping, filetype_mapping, rule_config,
                    proxy_tool, rules, rule_providers, rule_lines >>
    /\ UNCHANGED << node_name, exclude_isp, country, node_names, min_count,
                    country_counts, country_info_list, proxy_groups >>
    /\ UNCHANGED proxies_ids
    /\ UNCHANGED yaml_str

NextRuleUrl == GenerateRuleUrl

SpecRuleUrl == InitRuleUrl /\ [][NextRuleUrl]_vars

\* The rule's category, None when the entry has none.
RuleCategory == dict_get(rule_config, "category", None)

\* The rule's remote file, '' when the entry has none.
RuleRemoteFile == dict_get(rule_config, "remotefile", << >>)

\* The template of the rule's category, '' when the category has none.
RuleTemplate ==
    IF RuleCategory \in DOMAIN categories
    THEN dict_get(categories[RuleCategory], "url", << >>)
    ELSE << >>

\* C17: generate_rule_url returns None for every rule whose category is
\* missing or is not a key of the category table, for every tool and
\* whatever the two mapping tables contain.
C17_UnknownCategory ==
    (pc = "resolved" /\ (RuleCategory = None \/ RuleCategory \notin DOMAIN categories))
        => url = None

\* The URL of a rule of an unknown category was asked for, with both mapping
\* tables declaring that category and the tool.
C17_Witness ==
    /\ pc = "resolved"
    /\ RuleCategory = UnknownCategory
    /\ RuleCategory \in DOMAIN tools_mapping
    /\ RuleCategory \in DOMAIN filetype_mapping
    /\ proxy_tool \in DOMAIN tools_mapping[RuleCategory]
    /\ proxy_tool \in DOMAIN filetype_mapping[RuleCategory]
    /\ RuleRemoteFile # << >>
    /\ url = None

\* The mapping of the rule's category in a table, empty when the table does
\* not have the category.
MappingOf(table) == dict_get(table, RuleCategory, << >>)

\* The rule's remote file as it is substituted: without a leading './', and
\* without its last extension when the template has the filetype
\* placeholder.
StatedStem ==
    LET stripped == IF startswith(RuleRemoteFile, << ".", "/" >>)
                    THEN SubSeq(RuleRemoteFile, 3, Len(RuleRemoteFile))
                    ELSE RuleRemoteFile
        dots == {i \in 1..Len(stripped) : stripped[i] = "."}
    IN  IF str_contains(RuleTemplate, FILETYPE) /\ dots # {}
        THEN SubSeq(stripped, 1, (CHOOSE i \in dots : \A j \in dots : j <= i) - 1)
        ELSE stripped

\* The alias by the policy: the tool's entry, else 'fallback', else the
\* tool's own name.
StatedAlias ==
    IF proxy_tool \in DOMAIN MappingOf(tools_mapping)
    THEN MappingOf(tools_mapping)[proxy_tool]
    ELSE IF FALLBACK \in DOMAIN MappingOf(tools_mapping)
    THEN MappingOf(tools_mapping)[FALLBACK]
    ELSE proxy_tool

\* The filetype by the same policy, ending with the given default; no
\* filetype when the template has no filetype placeholder.
FiletypeBy(default) ==
    IF ~str_contains(RuleTemplate, FILETYPE) THEN << >>
    ELSE IF proxy_tool \in DOMAIN MappingOf(filetype_mapping)
    THEN MappingOf(filetype_mapping)[proxy_tool]
    ELSE IF FALLBACK \in DOMAIN MappingOf(filetype_mapping)
    THEN MappingOf(filetype_mapping)[FALLBACK]
    ELSE default

\* The template with every placeholder filled at once.
RECURSIVE Filled(_, _, _, _)
Filled(template, alias, stem, filetype) ==
    IF template = << >> THEN << >>
    ELSE (CASE Head(template) = PROXYTOOLS -> alias
            [] Head(template) = REMOTEFILE -> stem
            [] Head(template) = FILETYPE -> filetype
            [] OTHER -> << Head(template) >>)
         \o Filled(Tail(template), alias, stem, filetype)

\* The values a mapping can give, with the tool's name and the empty string.
ValuesOf(table) ==
    {MappingOf(table)[k] : k \in DOMAIN MappingOf(table)} \cup {proxy_tool, << >>}

\* The parts of the remote file.
PartsOf(remotefile) ==
    {SubSeq(remotefile, i, j) : i \in 1..(Len(remotefile) + 1), j \in 0..Len(remotefile)}

\* C18: generate_rule_url returns None whenever the category's template is
\* empty or a placeholder of the template (tool alias, remote-file stem or
\* filetype) would be filled with the empty string; no URL is returned in
\* which such a placeholder was replaced by the empty string.
C18_NoEmptySubstitution ==
    (pc = "resolved" /\ RuleCategory \in DOMAIN categories) =>
        LET empty_fill ==
                \/ str_contains(RuleTemplate, PROXYTOOLS) /\ StatedAlias = << >>
                \/ str_contains(RuleTemplate, REMOTEFILE) /\ StatedStem = << >>
                \/ str_contains(RuleTemplate, FILETYPE) /\ FiletypeBy(<< >>) = << >>
        IN  (RuleTemplate = << >> \/ empty_fill) => url = None

\* C19: the alias in a rule URL is the entry of the category's mapping for
\* the tool when the tool is listed; otherwise the mapping's 'fallback' entry
\* when there is one; otherwise the tool's own name, also when the category
\* has no mapping.
C19_ToolAlias ==
    (pc = "resolved" /\ url # None) =>
        \E stem \in PartsOf(RuleRemoteFile), filetype \in ValuesOf(filetype_mapping) :
            url = Filled(RuleTemplate, StatedAlias, stem, filetype)

\* A URL was returned for a template with the alias placeholder, for a tool
\* that is not listed: with a 'fallback' entry, or with no mapping for the
\* category at all, where the tool's own name is in the URL.
C19_Witness ==
    /\ pc = "resolved"
    /\ url # None
    /\ str_contains(RuleTemplate, PROXYTOOLS)
    /\ proxy_tool = UnlistedTool
    /\ RuleCategory \notin DOMAIN tools_mapping
    /\ str_contains(url, UnlistedTool[1])

RenderTool ==
    IF pc = "loon" THEN LOON ELSE IF pc = "surge" THEN SURGE ELSE MIHOMO

\* The rules of the catalog whose URL resolution returns None for the tool.
UnresolvedRules(tool) ==
    {rule_key \in DOMAIN get_all_rules :
        generate_rule_url(rule_key, get_all_rules[rule_key], tool) = None}

\* The flattened catalog without one rule.
WithoutRule(rule_key) ==
    [key \in DOMAIN get_all_rules \ {rule_key} |-> get_all_rules[key]]

\* C21: a rule whose URL resolution returns None has no entry in the
\* catalog a renderer builds (rule-providers of Mihomo and Stash, remote
\* rule lines of Loon, rule lines of Surge), and the catalog is the one the
\* renderer builds from the rules without it.
C21_UnresolvedOmitted ==
    Rendered =>
        \A rule_key \in UnresolvedRules(RenderTool) :
            IF pc = "loon"
            THEN rule_lines = loon_rule_lines_of(loon_remote_rules(WithoutRule(rule_key), 1))
            ELSE IF pc = "surge"
            THEN rule_lines =
                    surge_rule_lines_of(surge_remote_rules(WithoutRule(rule_key), 1, << >>))
            ELSE /\ rule_key \notin DOMAIN rule_providers
                 /\ rule_providers = mihomo_rule_providers(WithoutRule(rule_key))

\* An unresolved rule between two resolved ones of the Surge rule order.
C21_Witness ==
    /\ pc = "surge"
    /\ "AI" \in UnresolvedRules(SURGE)
    /\ {"ADBlock", "YouTubeMusic"} \subseteq DOMAIN get_all_rules \ UnresolvedRules(SURGE)
    /\ Len(rule_lines) > 9

(***************************************************************************)
(* SpecScript: the JS override script on a node list and a threshold.      *)
(***************************************************************************)
InitScript ==
    /\ pc = "start"
    /\ node_names \in NodeLists
    /\ exclude_isp = TRUE
    /\ min_count \in MinCounts
    /\ node_name = << >>
    /\ country = NoResult
    /\ country_counts = << >>
    /\ country_info_list = << >>
    /\ proxy_groups = << >>
    /\ proxies_ids = << >>
    /\ yaml_str = << >>
    /\ NoRuleLoader

\* main(config) of the script, with countryThreshold = min_count
Main ==
    /\ pc = "start"
    /\ proxy_groups' = main(node_names, min_count)
    /\ pc' = "script"
    /\ UNCHANGED rule_vars
    /\ UNCHANGED << node_name, country, node_names, exclude_isp, min_count,
                    country_counts, country_info_list >>
    /\ proxies_ids' = js_proxies_identities(proxy_groups')
    /\ UNCHANGED yaml_str

NextScript == Main

SpecScript == InitScript /\ [][NextScript]_vars

\* The names and the member lists of a group list, in order; the empty list
\* for a group without a member list.
NamesAndMembers(groups) ==
    [i \in 1..Len(groups) |->
        [name |-> groups[i].name,
         members |-> IF "proxies" \in DOMAIN groups[i] THEN groups[i].proxies ELSE << >>]]

\* C22: the group list of the script has the names, the order and the member
\* lists of the list generate_all_groups builds for the same node list and
\* threshold.
C22_ScriptAgrees ==
    pc = "script" =>
        NamesAndMembers(proxy_groups)
            = NamesAndMembers(generate_all_groups(node_names, min_count).proxy_groups)

(***************************************************************************)
(* The order of the region groups in what the renderers emit (SpecRender). *)
(***************************************************************************)
\* The priority of a region group name: the table position of its region,
\* one more for the 'other' group, 0 for any other name.
PriorityRank(group_name) ==
    IF group_name = OTHER_NODES THEN Len(COUNTRIES_META) + 1
    ELSE IF \E i \in 1..Len(COUNTRIES_META) : group_name = COUNTRIES_META[i].name \o NODE_SUFFIX
    THEN CHOOSE i \in 1..Len(COUNTRIES_META) : group_name = COUNTRIES_META[i].name \o NODE_SUFFIX
    ELSE 0

\* The region group names of a list of names are in priority order.
RegionsInPriorityOrder(list) ==
    \A i, j \in 1..Len(list) :
        (i < j /\ PriorityRank(list[i]) > 0 /\ PriorityRank(list[j]) > 0)
            => PriorityRank(list[i]) < PriorityRank(list[j])

\* C23: in every group list a renderer emits, from node data or from the
\* default region set, the region groups are in the table's priority order,
\* 'other' last, in the region tier and in every member list.
C23_RegionsInPriorityOrder ==
    Rendered =>
        /\ RegionsInPriorityOrder([i \in 1..Len(proxy_groups) |-> proxy_groups[i].name])
        /\ \A i \in 1..Len(proxy_groups) :
              "proxies" \in DOMAIN proxy_groups[i]
                  => RegionsInPriorityOrder(proxy_groups[i].proxies)

(***************************************************************************)
(* SpecOwn: a caller changes the member list of one returned group.        *)
(***************************************************************************)
OwnNodeLists == {ScenarioNodes} \cup {names \in NodeLists : Len(names) <= 1}

InitOwn ==
    /\ pc = "start"
    /\ node_names \in OwnNodeLists
    /\ exclude_isp = TRUE
    /\ min_count = 0
    /\ node_name = << >>
    /\ country = NoResult
    /\ country_counts = << >>
    /\ country_info_list = << >>
    /\ proxy_groups = << >>
    /\ proxies_ids = << >>
    /\ yaml_str = << >>
    /\ NoRuleLoader

\* group['proxies'].append('DIRECT') on group i of the returned list
AppendTo(i) ==
    /\ pc = "generated"
    /\ proxies_ids[i] # 0
    /\ proxy_groups' = list_append(proxy_groups, proxies_ids, i, DIRECT)
    /\ pc' = "changed"
    /\ UNCHANGED rule_vars
    /\ UNCHANGED << node_name, country, node_names, exclude_isp, min_count,
                    country_counts, country_info_list, proxies_ids, yaml_str >>

\* group['proxies'].pop() on group i of the returned list
PopFrom(i) ==
    /\ pc = "generated"
    /\ proxies_ids[i] # 0
    /\ proxy_groups' = list_pop(proxy_groups, proxies_ids, i)
    /\ pc' = "changed"
    /\ UNCHANGED rule_vars
    /\ UNCHANGED << node_name, country, node_names, exclude_isp, min_count,
                    country_counts, country_info_list, proxies_ids, yaml_str >>

AppendMember == \E i \in 1..Len(proxy_groups) : AppendTo(i)

PopMember == \E i \in 1..Len(proxy_groups) : PopFrom(i)

NextOwn == GenerateAllGroups \/ AppendMember \/ PopMember

SpecOwn == InitOwn /\ [][NextOwn]_vars

\* C24: every group owns its member list: appending to or removing from the
\* member list of one group of the returned list leaves every other group's
\* member list as it was.
C24_OwnedMemberLists ==
    [][\A i \in 1..Len(proxy_groups) :
          (AppendTo(i) \/ PopFrom(i))
              => \A j \in 1..Len(proxy_groups) :
                    (j # i /\ "proxies" \in DOMAIN proxy_groups[j])
                        => proxy_groups'[j].proxies = proxy_groups[j].proxies]_vars

(***************************************************************************)
(* SpecFilter: the groups of a one-node list, for a given threshold.       *)
(***************************************************************************)
FilterThresholds == {0, 1}

InitFilter ==
    /\ pc = "start"
    /\ node_names \in {<< name >> : name \in Names}
    /\ exclude_isp = TRUE
    /\ min_count \in FilterThresholds
    /\ node_name = << >>
    /\ country = NoResult
    /\ country_counts = << >>
    /\ country_info_list = << >>
    /\ proxy_groups = << >>
    /\ proxies_ids = << >>
    /\ yaml_str = << >>
    /\ NoRuleLoader

\* generator.generate_all_groups(node_names, min_count)
GenerateAllGroupsAt ==
    /\ pc = "start"
    /\ LET result == generate_all_groups(node_names, min_count)
       IN  /\ country_info_list' = result.country_info
           /\ proxy_groups' = result.proxy_groups
    /\ pc' = "generated"
    /\ UNCHANGED rule_vars
    /\ UNCHANGED << node_name, country, node_names, exclude_isp, min_count,
                    country_counts >>
    /\ proxies_ids' = proxies_identities(proxy_groups')
    /\ UNCHANGED yaml_str

NextFilter == GenerateAllGroupsAt

SpecFilter == InitFilter /\ [][NextFilter]_vars

\* The positions of the summaries of named regions.
NamedSummaryPositions ==
    {k \in 1..Len(country_info_list) : country_info_list[k].name # OTHER_COUNTRY}

\* The nodes of the list that the group of summary k admits.
AdmittedBy(k) == {n \in 1..Len(node_names) : Admits(RegionTier(k), node_names[n])}

\* C25 as stated: a node matches the filter of an emitted named-region group
\* if and only if identify_country(name, exclude_isp = True) is that region;
\* so no node is a member of two region-tier groups, an ISP node is a member
\* of none, and a group selects as many nodes as its summary counts.
C25_FilterIsClassifyAsStated ==
    pc = "generated" =>
        \A k \in NamedSummaryPositions :
            /\ \A n \in 1..Len(node_names) :
                  n \in AdmittedBy(k)
                  <=> identify_country(node_names[n], TRUE) = country_info_list[k].name
            /\ Cardinality(AdmittedBy(k)) = country_info_list[k].count

\* C25 as amended: a node matches the filter of an emitted named-region group
\* if and only if its name matches that region's pattern, whatever the ISP
\* pattern and the patterns of the earlier regions say; so every node that
\* identify_country(name, True) gives to the region is a member, and a group
\* selects at least as many nodes as its summary counts.
C25_FilterIsPattern ==
    pc = "generated" =>
        \A k \in NamedSummaryPositions :
            /\ \A n \in 1..Len(node_names) :
                  /\ n \in AdmittedBy(k)
                     <=> RegionMatches(TableIndex(country_info_list[k].name), node_names[n])
                  /\ identify_country(node_names[n], TRUE) = country_info_list[k].name
                     => n \in AdmittedBy(k)
            /\ Cardinality(AdmittedBy(k)) >= country_info_list[k].count

\* A node is a member of two named-region groups, and an ISP node that
\* identify_country drops is a member of a named-region group.
C25_Witness ==
    /\ pc = "generated"
    /\ \/ /\ Cardinality({k \in NamedSummaryPositions : 1 \in AdmittedBy(k)}) >= 2
          /\ ~IspMatches(node_names[1])
       \/ /\ identify_country(node_names[1], TRUE) = None
          /\ \E k \in NamedSummaryPositions : 1 \in AdmittedBy(k)

(***************************************************************************)
(* Reachability of the counted nodes through the region tier (Spec).       *)
(***************************************************************************)
\* C26: every node that parse_nodes counts (identify_country(name, True) is
\* not None) is admitted by at least one region-tier group that
\* generate_all_groups emits for the same list and threshold.
C26_CountedNodesAdmitted ==
    pc = "generated" =>
        \A n \in 1..Len(node_names) :
            identify_country(node_names[n], TRUE) # None
                => \E i \in RegionTierGroups : Admits(proxy_groups[i], node_names[n])

(***************************************************************************)
(* Referential integrity of what the renderers emit (SpecRender).          *)
(***************************************************************************)
\* The built-in policies DIRECT, REJECT and REJECT-DROP.
BuiltIns == {DIRECT, REJECT, REJECT_DROP}

EmittedGroupNames == {proxy_groups[i].name : i \in 1..Len(proxy_groups)}

\* C27: in the group list a renderer emits (Stash, Loon and Surge without
\* GLOBAL), for a node list or for the default set, every name in a group's
\* member list is a built-in policy or the name of a group of the same list.
C27_ReferentialIntegrity ==
    Rendered =>
        \A i \in 1..Len(proxy_groups) :
            "proxies" \in DOMAIN proxy_groups[i]
                => \A m \in 1..Len(proxy_groups[i].proxies) :
                      proxy_groups[i].proxies[m] \in BuiltIns \cup EmittedGroupNames

\* Stash on the scenario list: GLOBAL is dropped, and the canonical list
\* names the two region groups there are.
C27_Witness ==
    /\ pc = "stash_override"
    /\ node_names = ScenarioNodes
    /\ <<"G", "L", "O", "B", "A", "L">> \notin EmittedGroupNames
    /\ \E i \in 1..Len(proxy_groups) :
          /\ "proxies" \in DOMAIN proxy_groups[i]
          /\ Len(proxy_groups[i].proxies) = 5
          /\ proxy_groups[i].proxies[2] = COUNTRIES_META[1].name \o NODE_SUFFIX
          /\ proxy_groups[i].proxies[3] = OTHER_NODES

(***************************************************************************)
(* Rule lines against rule providers and groups (SpecConfig).              *)
(***************************************************************************)
RuleSetLines == {i \in 1..Len(rule_lines) : rule_lines[i].kind = "RULE-SET"}

\* C28: every 'RULE-SET,<provider>,<policy>' line of get_rules names a key
\* of the rule-providers mapping get_rule_providers returns for the same
\* catalog; a rule without provider has no RULE-SET line.
C28_RuleSetHasProvider ==
    pc \in {"mihomo", "stash_override", "stash_full"} =>
        \A i \in RuleSetLines : rule_lines[i].rule_name \in DOMAIN rule_providers

\* The lines of the generated rules that name a policy.
PolicyLines == {i \in 1..Len(rule_lines) : "policy_name" \in DOMAIN rule_lines[i]}

\* The policy names of the three rule tables.
TablePolicyNames ==
    {rule_mapping[k].policy_name : k \in DOMAIN rule_mapping}
        \cup {loon_rule_policy_mapping[k].policy_name : k \in DOMAIN loon_rule_policy_mapping}
        \cup {surge_rule_policy_mapping[k].policy_name : k \in DOMAIN surge_rule_policy_mapping}

\* C29: for every node list (or none) and every rule catalog, the policy of
\* every generated rule line (RULE-SET, GEOIP, MATCH and FINAL lines, Loon
\* remote rules) is the name of a group of the list the same renderer
\* emits; so is every policy name of the rule tables the lines are made from.
C29_PolicyIsGroup ==
    Rendered =>
        /\ \A i \in PolicyLines : rule_lines[i].policy_name \in EmittedGroupNames
        /\ TablePolicyNames \subseteq EmittedGroupNames
        /\ \A i \in 1..Len(rule_order) : rule_order[i] \in DOMAIN rule_mapping
        /\ \A i \in 1..Len(loon_rule_order) : loon_rule_order[i] \in DOMAIN loon_rule_policy_mapping
        /\ \A i \in 1..Len(surge_rule_order) : surge_rule_order[i] \in DOMAIN surge_rule_policy_mapping

\* Loon without a node list, on a catalog whose rule 'AI' resolves: the
\* remote rule of 'AI' is among the lines.
C29_Witness ==
    /\ pc = "loon"
    /\ node_names = NoNodeNames
    /\ \E i \in PolicyLines :
          /\ rule_lines[i].kind = "remote"
          /\ rule_lines[i].policy_name = <<"A", "I">>
    /\ Len(rule_lines) >= 4

(***************************************************************************)
(* SpecYaml: a Mihomo config is generated and serialized, again and again. *)
(***************************************************************************)
YamlNodeLists ==
    {NoNodeNames, ScenarioNodes} \cup {names \in NodeLists : Len(names) <= 2}

InitYaml ==
    /\ pc = "start"
    /\ node_names \in YamlNodeLists
    /\ exclude_isp = TRUE
    /\ min_count = 0
    /\ node_name = << >>
    /\ country = NoResult
    /\ country_counts = << >>
    /\ country_info_list = << >>
    /\ proxy_groups = << >>
    /\ proxies_ids = << >>
    /\ yaml_str = << >>
    /\ InitLoader({("AI" :> ResolvableRule)})

\* YamlHelper.to_yaml_string(config) on the config generate_yaml_config
\* returned: the text, and what the call leaves in config['proxy-groups'].
ToYamlString ==
    /\ pc \in {"mihomo", "serialized"}
    /\ yaml_str' = to_yaml_string(proxy_groups)
    /\ proxy_groups' = proxy_groups_after_dump(proxy_groups)
    /\ proxies_ids' = proxies_identities(proxy_groups')
    /\ pc' = "serialized"
    /\ UNCHANGED rule_vars
    /\ UNCHANGED << node_name, country, node_names, exclude_isp, min_count,
                    country_counts, country_info_list >>

NextYaml == GenerateYamlConfig \/ ToYamlString

SpecYaml == InitYaml /\ [][NextYaml]_vars

\* C30: to_yaml_string leaves the caller's proxy-groups list, its member
\* lists and its anchor and reference markers as they were, and a second
\* serialization of the same config returns the text of the first.
C30_SerializationKeepsConfig ==
    [][ToYamlString =>
          /\ proxy_groups' = proxy_groups
          /\ pc = "serialized" => yaml_str' = yaml_str]_vars

====
